---------------------------- MODULE Spec2Model ----------------------------
(***************************************************************************)
(* A model of the mangrove chess core: the background search worker of     *)
(* hash-search/src/search.rs (SearchThread) with its two channels, and the *)
(* position model of hash-core/src/board.rs (Board).                       *)
(***************************************************************************)
EXTENDS Integers, Sequences, FiniteSets, TLC

(***************************************************************************)
(* Bounds of the model.                                                    *)
(***************************************************************************)
\* Number of distinct moves a tree node can have as children.
NumMoves == 2
\* Depth below the root at which expand stops creating children.
MaxDepth == 2
\* Visit count of the root from which the worker starts no expand call.
MaxVisits == 2
\* Number of commands the controller may send.
MaxCommands == 2
\* Number of moves made on a board.
MaxPly == 2
\* Number of characters of the arbitrary texts given to interpret_move.
MaxChars == 3
\* Number of squares of the arbitrary bitboards a shift is applied to.
MaxBits == 2
\* Numbers of enemy pieces and of friendly pieces placed around the king of
\* the positions update_move_constraints is applied to.
MaxAttackers == 2
MaxBlockers == 2
\* Distance from 0, from i16::MIN and from the edge of the finite band
\* below i16::MAX of the arguments the Score constructors are given.
MaxDistance == 12
\* Number of flips applied to a Score.
MaxFlips == 2

(***************************************************************************)
(* State.  The first group is the search worker and its controller, the    *)
(* second group (further below) the board.                                 *)
(***************************************************************************)
VARIABLES
    commandQueue,          \* commands in flight on the command channel
    commandSenderAlive,    \* the controller still holds the command Sender
    bestMoveQueue,         \* moves in flight on the result channel
    bestMoveReceiverAlive, \* the controller still holds the result Receiver
    worker,                \* position of the worker loop
    command,               \* the command try_recv returned, being handled
    tree,                  \* the Tree the worker owns
    payload,               \* panic payload of a failed worker
    controller,            \* position of the controller thread
    received,              \* what the controller's recv calls returned
    joinResult,            \* what join returned
    sentCommands,          \* history: every command sent, in order
    handledCommands,       \* history: every command handled, in order
    sentMoves,             \* history: every move sent on the result channel
    board,                 \* the Board
    ply,                   \* moves made so far with make_move_unchecked
    lastMove,              \* the move last made (a set: empty before any)
    irreversible,          \* what the last make_move_unchecked returned
    constrained,           \* update_move_constraints has run on the board
    move_text,              \* the text last given to interpret_move
    formatted,             \* the move that text was formatted from, if any
    interpreted,           \* what that interpret_move call returned
    bitboard,              \* the BitBoard a directional shift is applied to
    shifted,               \* the last directional shift and its result
    flipped,               \* the last vertical_flip and its result
    subsets,               \* the iterator subsets() returned for bitboard
    yielded,               \* the items that iterator has yielded, in order
    score,                 \* a Score
    built,                 \* the constructor call that built the Score
    displayed              \* what Display wrote for the Score

searchVars == <<commandQueue, commandSenderAlive, bestMoveQueue,
                bestMoveReceiverAlive, worker, command, tree, payload,
                controller, received, joinResult, sentCommands,
                handledCommands, sentMoves>>

valueVars == <<flipped, subsets, yielded, score, built, displayed>>

callVars == <<move_text, formatted, interpreted, bitboard, shifted, valueVars>>

boardVars == <<board, ply, lastMove, irreversible, constrained, callVars>>

vars == <<searchVars, boardVars>>

(***************************************************************************)
(* The tree (hash-search tree.rs, consumed through expand, children,       *)
(* visits, best_move and advance).  A tree is a function from the paths of *)
(* its nodes (sequences of moves from the root) to visit counts.           *)
(***************************************************************************)
Moves == 1 .. NumMoves

NoMove == 0

\* Tree::new: a root that was never expanded.
Tree_new == (<<>> :> 0)

\* Tree::visits
visits(t) == t[<<>>]

\* Tree::children: the moves of the root's children; {} stands for None.
children(t) == {m \in Moves : <<m>> \in DOMAIN t}

\* Tree::best_move: the moves whose child has the highest visit count.
best_move(t) ==
    {m \in children(t) : \A n \in children(t) : t[<<n>>] <= t[<<m>>]}

IsPrefix(p, q) == Len(p) <= Len(q) /\ SubSeq(q, 1, Len(p)) = p

\* Tree::advance: the subtree of the child of move m; defined when m is a child.
advance(t, m) ==
    LET below == {q \in DOMAIN t : Len(q) >= 1 /\ q[1] = m}
    IN  [p \in {Tail(q) : q \in below} |-> t[<<m>> \o p]]

\* The unexpanded nodes the selector can descend to.
Leaves(t) == {p \in DOMAIN t : \A m \in Moves : Append(p, m) \notin DOMAIN t}

\* Tree::expand: one simulation ending at leaf p: p's children are created
\* (below MaxDepth) and every node on the path is visited once more.
expand(t, p) ==
    LET created == IF Len(p) < MaxDepth
                   THEN {Append(p, m) : m \in Moves} ELSE {}
    IN  [q \in DOMAIN t \cup created |->
            IF q \in created THEN 0
            ELSE IF IsPrefix(q, p) THEN t[q] + 1 ELSE t[q]]

(***************************************************************************)
(* Commands and failures.                                                  *)
(***************************************************************************)
SendAndPlayBestMove == [type |-> "SendAndPlayBestMove", move |-> NoMove]

PlayedMove(m) == [type |-> "PlayedMove", move |-> m]

SearchCommand == {SendAndPlayBestMove} \cup {PlayedMove(m) : m \in Moves}

NoCommand == [type |-> "None", move |-> NoMove]

NoPayload == [kind |-> "None", text |-> ""]

PayloadKinds == {"String", "str", "other"}

\* Option::expect("opponent move is impossible") on None.
ExpectPayload == [kind |-> "String", text |-> "opponent move is impossible"]

\* Option::unwrap on None.
UnwrapPayload == [kind |-> "str", text |-> "unwrap on None"]

\* A panic inside expand (selector or network code), of any payload type.
ExpandPayload(k) == [kind |-> k, text |-> "expand"]

\* Faulty variant of SearchThreadError_new: only a String payload is downcast.
SearchThreadError_new_StringOnly(p) ==
    IF p.kind = "String" THEN [variant |-> "Error", text |-> p.text]
    ELSE [variant |-> "Unknown", text |-> ""]

\* SearchThreadError::new
SearchThreadError_new(p) ==
    IF p.kind = "String" THEN [variant |-> "Error", text |-> p.text]
    ELSE IF p.kind = "str" THEN [variant |-> "Error", text |-> p.text]
    ELSE [variant |-> "Unknown", text |-> ""]

Ok == [variant |-> "Ok", text |-> ""]

NotJoined == [variant |-> "NotJoined", text |-> ""]

Terminated == {"returned", "panicked"}

\* What Receiver::recv returns: Ok(move) or Err(RecvError).
Received(m) == [result |-> "Ok", move |-> m]

Disconnected == [result |-> "Err", move |-> NoMove]

(***************************************************************************)
(* The worker loop of SearchThread::new.                                   *)
(***************************************************************************)
workerFrame == <<commandSenderAlive, bestMoveReceiverAlive, controller,
                 received, joinResult, sentCommands, boardVars>>

\* Faulty variant of PollEmpty: expand is called whatever try_recv found.
PollEmptyIgnoresQueue ==
    /\ worker = "poll"
    /\ visits(tree) < MaxVisits
    /\ worker' = "expanding"
    /\ UNCHANGED <<commandQueue, bestMoveQueue, command, tree, payload,
                   handledCommands, sentMoves>>
    /\ UNCHANGED workerFrame

\* try_recv returns Err(Empty): an expand call starts.
PollEmpty ==
    /\ worker = "poll"
    /\ commandQueue = <<>>
    /\ commandSenderAlive
    /\ visits(tree) < MaxVisits
    /\ worker' = "expanding"
    /\ UNCHANGED <<commandQueue, bestMoveQueue, command, tree, payload,
                   handledCommands, sentMoves>>
    /\ UNCHANGED workerFrame

\* tree.expand returns.
FinishExpand ==
    /\ worker = "expanding"
    /\ \E p \in Leaves(tree) : tree' = expand(tree, p)
    /\ worker' = "poll"
    /\ UNCHANGED <<commandQueue, bestMoveQueue, command, payload,
                   handledCommands, sentMoves>>
    /\ UNCHANGED workerFrame

\* Faulty variant of PollCommand: the newest command is taken instead of the oldest.
PollCommandNewest ==
    /\ worker = "poll"
    /\ commandQueue # <<>>
    /\ command' = commandQueue[Len(commandQueue)]
    /\ commandQueue' = SubSeq(commandQueue, 1, Len(commandQueue) - 1)
    /\ worker' = "handling"
    /\ UNCHANGED <<bestMoveQueue, tree, payload, handledCommands,
                   sentMoves>>
    /\ UNCHANGED workerFrame

\* Faulty variant of PollCommand: with the command sender dropped, try_recv
\* reports the disconnection although a command is queued.
PollCommandDisconnectedFirst ==
    /\ worker = "poll"
    /\ commandQueue # <<>>
    /\ IF commandSenderAlive
       THEN /\ command' = Head(commandQueue)
            /\ commandQueue' = Tail(commandQueue)
            /\ worker' = "handling"
       ELSE /\ worker' = "returned"
            /\ UNCHANGED <<command, commandQueue>>
    /\ UNCHANGED <<bestMoveQueue, tree, payload, handledCommands,
                   sentMoves>>
    /\ UNCHANGED workerFrame

\* try_recv returns Ok(command).
PollCommand ==
    /\ worker = "poll"
    /\ commandQueue # <<>>
    /\ command' = Head(commandQueue)
    /\ commandQueue' = Tail(commandQueue)
    /\ worker' = "handling"
    /\ UNCHANGED <<bestMoveQueue, tree, payload, handledCommands,
                   sentMoves>>
    /\ UNCHANGED workerFrame

\* Faulty variant of PollDisconnected: a disconnection is treated like Empty.
PollDisconnectedAsEmpty ==
    /\ worker = "poll"
    /\ commandQueue = <<>>
    /\ ~commandSenderAlive
    /\ visits(tree) < MaxVisits
    /\ worker' = "expanding"
    /\ UNCHANGED <<commandQueue, bestMoveQueue, command, tree, payload,
                   handledCommands, sentMoves>>
    /\ UNCHANGED workerFrame

\* Faulty variant of PollDisconnected: a disconnection is unwrapped and panics.
PollDisconnectedPanics ==
    /\ worker = "poll"
    /\ commandQueue = <<>>
    /\ ~commandSenderAlive
    /\ worker' = "panicked"
    /\ payload' = UnwrapPayload
    /\ UNCHANGED <<commandQueue, bestMoveQueue, command, tree,
                   handledCommands, sentMoves>>
    /\ UNCHANGED workerFrame

\* try_recv returns Err(Disconnected).
PollDisconnected ==
    /\ worker = "poll"
    /\ commandQueue = <<>>
    /\ ~commandSenderAlive
    /\ worker' = "returned"
    /\ UNCHANGED <<commandQueue, bestMoveQueue, command, tree, payload, handledCommands, sentMoves>>
    /\ UNCHANGED workerFrame

\* Faulty variant of HandleSendAndPlayBestMove: the best move is played but not sent.
HandleSendAndPlayBestMoveNoSend ==
    /\ worker = "handling"
    /\ command = SendAndPlayBestMove
    /\ children(tree) # {}
    /\ handledCommands' = Append(handledCommands, command)
    /\ command' = NoCommand
    /\ \E m \in best_move(tree) : tree' = advance(tree, m)
    /\ worker' = "poll"
    /\ UNCHANGED <<commandQueue, bestMoveQueue, sentMoves, payload>>
    /\ UNCHANGED workerFrame

\* The SendAndPlayBestMove arm, for a root that has children.
HandleSendAndPlayBestMove ==
    /\ worker = "handling"
    /\ command = SendAndPlayBestMove
    /\ children(tree) # {}
    /\ handledCommands' = Append(handledCommands, command)
    /\ command' = NoCommand
    /\ \E m \in best_move(tree) :
        IF bestMoveReceiverAlive
        THEN /\ bestMoveQueue' = Append(bestMoveQueue, m)
             /\ sentMoves' = Append(sentMoves, m)
             /\ tree' = advance(tree, m)
             /\ worker' = "poll"
        ELSE /\ worker' = "returned"
             /\ UNCHANGED <<bestMoveQueue, sentMoves, tree>>
    /\ UNCHANGED <<commandQueue, payload>>
    /\ UNCHANGED workerFrame

\* The SendAndPlayBestMove arm, for a root without children (never expanded):
\* best_move has no child to select and no move has a child to advance to, so
\* the arm fails before anything is sent.
HandleSendAndPlayBestMoveUnexpanded ==
    /\ worker = "handling"
    /\ command = SendAndPlayBestMove
    /\ children(tree) = {}
    /\ handledCommands' = Append(handledCommands, command)
    /\ command' = NoCommand
    /\ worker' = "panicked"
    /\ payload' = UnwrapPayload
    /\ UNCHANGED <<commandQueue, bestMoveQueue, sentMoves, tree>>
    /\ UNCHANGED workerFrame

\* Faulty variant of HandlePlayedMove: a move without a child is ignored.
HandlePlayedMoveIgnoresUnknown ==
    /\ worker = "handling"
    /\ command.type = "PlayedMove"
    /\ handledCommands' = Append(handledCommands, command)
    /\ command' = NoCommand
    /\ tree' = IF command.move \in children(tree)
               THEN advance(tree, command.move) ELSE tree
    /\ worker' = "poll"
    /\ UNCHANGED <<commandQueue, bestMoveQueue, sentMoves, payload>>
    /\ UNCHANGED workerFrame

\* The PlayedMove arm.
HandlePlayedMove ==
    /\ worker = "handling"
    /\ command.type = "PlayedMove"
    /\ handledCommands' = Append(handledCommands, command)
    /\ command' = NoCommand
    /\ IF command.move \in children(tree)
       THEN /\ tree' = advance(tree, command.move)
            /\ worker' = "poll"
            /\ UNCHANGED payload
       ELSE /\ worker' = "panicked"
            /\ payload' = ExpectPayload
            /\ UNCHANGED tree
    /\ UNCHANGED <<commandQueue, bestMoveQueue, sentMoves>>
    /\ UNCHANGED workerFrame

\* A panic inside tree.expand (the selector's or the network's code).
ExpandPanics ==
    /\ worker = "expanding"
    /\ \E k \in PayloadKinds : payload' = ExpandPayload(k)
    /\ worker' = "panicked"
    /\ UNCHANGED <<commandQueue, bestMoveQueue, command, tree,
                   handledCommands, sentMoves>>
    /\ UNCHANGED workerFrame

WorkerStep ==
    \/ PollEmpty
    \/ FinishExpand
    \/ PollCommand
    \/ PollDisconnected
    \/ HandleSendAndPlayBestMove
    \/ HandleSendAndPlayBestMoveUnexpanded
    \/ HandlePlayedMove

(***************************************************************************)
(* The controller: the thread that holds the command Sender, the result    *)
(* Receiver and the SearchThread handle.                                   *)
(***************************************************************************)
controllerFrame == <<worker, command, tree, payload,
                     handledCommands, sentMoves, boardVars>>

RequestsSent ==
    Cardinality({i \in 1 .. Len(sentCommands) :
                    sentCommands[i] = SendAndPlayBestMove})

\* Sender::send succeeds while the worker holds the Receiver.
Send ==
    /\ controller = "idle"
    /\ commandSenderAlive
    /\ worker \notin Terminated
    /\ Len(sentCommands) < MaxCommands
    /\ \E c \in SearchCommand :
        /\ commandQueue' = Append(commandQueue, c)
        /\ sentCommands' = Append(sentCommands, c)
    /\ UNCHANGED <<commandSenderAlive, bestMoveQueue, bestMoveReceiverAlive,
                   controller, received, joinResult>>
    /\ UNCHANGED controllerFrame

DropCommandSender ==
    /\ controller = "idle"
    /\ commandSenderAlive
    /\ commandSenderAlive' = FALSE
    /\ UNCHANGED <<commandQueue, bestMoveQueue, bestMoveReceiverAlive,
                   controller, received, joinResult, sentCommands>>
    /\ UNCHANGED controllerFrame

DropBestMoveReceiver ==
    /\ controller = "idle"
    /\ bestMoveReceiverAlive
    /\ bestMoveReceiverAlive' = FALSE
    /\ UNCHANGED <<commandQueue, commandSenderAlive, bestMoveQueue,
                   controller, received, joinResult, sentCommands>>
    /\ UNCHANGED controllerFrame

\* The controller calls Receiver::recv for a request it has sent.
StartReceive ==
    /\ controller = "idle"
    /\ bestMoveReceiverAlive
    /\ Len(received) < RequestsSent
    /\ controller' = "receiving"
    /\ UNCHANGED <<commandQueue, commandSenderAlive, bestMoveQueue,
                   bestMoveReceiverAlive, received, joinResult, sentCommands>>
    /\ UNCHANGED controllerFrame

\* recv returns: a move, or a disconnection once the worker has dropped its
\* Sender and the channel is empty.
FinishReceive ==
    /\ controller = "receiving"
    /\ \/ /\ bestMoveQueue # <<>>
          /\ received' = Append(received, Received(Head(bestMoveQueue)))
          /\ bestMoveQueue' = Tail(bestMoveQueue)
       \/ /\ bestMoveQueue = <<>>
          /\ worker \in Terminated
          /\ received' = Append(received, Disconnected)
          /\ UNCHANGED bestMoveQueue
    /\ controller' = "idle"
    /\ UNCHANGED <<commandQueue, commandSenderAlive, bestMoveReceiverAlive,
                   joinResult, sentCommands>>
    /\ UNCHANGED controllerFrame

\* SearchThread::join returns once the worker has ended; it is the last thing
\* the controller does.
join ==
    /\ controller = "idle"
    /\ worker \in Terminated
    /\ joinResult = NotJoined
    /\ joinResult' = IF worker = "returned" THEN Ok
                     ELSE SearchThreadError_new(payload)
    /\ controller' = "joined"
    /\ UNCHANGED <<commandQueue, commandSenderAlive, bestMoveQueue,
                   bestMoveReceiverAlive, received, sentCommands>>
    /\ UNCHANGED controllerFrame

ControllerStep ==
    \/ Send
    \/ DropCommandSender
    \/ DropBestMoveReceiver
    \/ StartReceive
    \/ FinishReceive
    \/ join

(***************************************************************************)
(* Squares, colors and bitboards.  A bitboard is the set of its squares;   *)
(* square = 8 * rank + file, A1 = 0, H1 = 7, A8 = 56 (the bb! layout).     *)
(***************************************************************************)
Squares == 0 .. 63

File(s) == s % 8

Rank(s) == s \div 8

Sq(f, r) == 8 * r + f

OnBoard(f, r) == f \in 0 .. 7 /\ r \in 0 .. 7

A1 == Sq(0, 0)
C1 == Sq(2, 0)
D1 == Sq(3, 0)
E1 == Sq(4, 0)
F1 == Sq(5, 0)
G1 == Sq(6, 0)
H1 == Sq(7, 0)
A8 == Sq(0, 7)
C8 == Sq(2, 7)
D8 == Sq(3, 7)
E8 == Sq(4, 7)
F8 == Sq(5, 7)
G8 == Sq(6, 7)
H8 == Sq(7, 7)

EMPTY == {}

FULL == Squares

A_FILE == {s \in Squares : File(s) = 0}

H_FILE == {s \in Squares : File(s) = 7}

RANK_1 == {s \in Squares : Rank(s) = 0}

RANK_8 == {s \in Squares : Rank(s) = 7}

\* impl Not for Color
Not(c) == IF c = "White" THEN "Black" ELSE "White"

\* BitBoard::shift_visually_right: self.0 << squares on 64 bits; the bits
\* shifted past bit 63 are lost.
shift_visually_right(bb, squares) ==
    {s + squares : s \in {t \in bb : t + squares <= 63}}

\* BitBoard::shift_visually_left: self.0 >> squares.
shift_visually_left(bb, squares) ==
    {s - squares : s \in {t \in bb : t - squares >= 0}}

\* BitBoard::move_one_up
move_one_up(bb, c) ==
    IF c = "White" THEN shift_visually_right(bb \ RANK_8, 8)
    ELSE shift_visually_left(bb \ RANK_1, 8)

\* BitBoard::move_one_down
move_one_down(bb, c) == move_one_up(bb, Not(c))

\* Faulty variant of move_one_right: the edge file is not masked out before
\* the shift.
move_one_right_unmasked(bb, c) ==
    IF c = "White" THEN shift_visually_right(bb, 1)
    ELSE shift_visually_left(bb, 1)

\* BitBoard::move_one_right
move_one_right(bb, c) ==
    IF c = "White" THEN shift_visually_right(bb \ H_FILE, 1)
    ELSE shift_visually_left(bb \ A_FILE, 1)

\* BitBoard::move_one_left
move_one_left(bb, c) == move_one_right(bb, Not(c))

\* BitBoard::move_one_up_right
move_one_up_right(bb, c) == move_one_right(move_one_up(bb, c), c)

\* BitBoard::move_one_up_left
move_one_up_left(bb, c) == move_one_left(move_one_up(bb, c), c)

\* BitBoard::is_a_single_one
is_a_single_one(bb) == Cardinality(bb) = 1

\* BitXor / toggle_bit: the symmetric difference.
Xor(a, b) == (a \ b) \cup (b \ a)

\* u64::swap_bytes: byte k of the integer (rank k + 1) becomes byte 7 - k,
\* the bits inside a byte keep their place.
swap_bytes(x) == {8 * (7 - (s \div 8)) + (s % 8) : s \in x}

\* u64::reverse_bits: bit k becomes bit 63 - k.
reverse_bits(x) == {63 - s : s \in x}

\* A mutant of vertical_flip: the bits are reversed, not the bytes.
vertical_flip_ReverseBits(bb) == reverse_bits(bb)

\* BitBoard::vertical_flip
vertical_flip(bb) == swap_bytes(bb)

\* A line of the bb! macro without a 1.
NoBits == <<0, 0, 0, 0, 0, 0, 0, 0>>

\* The bb! macro: eight binary literals, the first shifted to the highest
\* byte; the digit at place j of a literal (1 is the leftmost) is its bit
\* 8 - j.  The integer is then bit-reversed and byte-swapped.
BitBoard_bb(lines) ==
    swap_bytes(reverse_bits(
        {t \in 0..63 : lines[8 - (t \div 8)][8 - (t % 8)] = 1}))

WHITE_KING_SIDE_CASTLE_MASK ==
    BitBoard_bb(<<NoBits, NoBits, NoBits, NoBits, NoBits, NoBits, NoBits,
                  <<0, 0, 0, 0, 0, 1, 1, 0>>>>)

WHITE_QUEEN_SIDE_CASTLE_OCCUPATION_MASK ==
    BitBoard_bb(<<NoBits, NoBits, NoBits, NoBits, NoBits, NoBits, NoBits,
                  <<0, 1, 1, 1, 0, 0, 0, 0>>>>)

WHITE_QUEEN_SIDE_CASTLE_ATTACK_MASK ==
    BitBoard_bb(<<NoBits, NoBits, NoBits, NoBits, NoBits, NoBits, NoBits,
                  <<0, 0, 1, 1, 0, 0, 0, 0>>>>)

BLACK_KING_SIDE_CASTLE_MASK == vertical_flip(WHITE_KING_SIDE_CASTLE_MASK)

BLACK_QUEEN_SIDE_CASTLE_ATTACK_MASK ==
    vertical_flip(WHITE_QUEEN_SIDE_CASTLE_ATTACK_MASK)

BLACK_QUEEN_SIDE_CASTLE_OCCUPATION_MASK ==
    vertical_flip(WHITE_QUEEN_SIDE_CASTLE_OCCUPATION_MASK)

RECURSIVE SubtractFrom(_, _, _, _)
\* The bits from place i up of a - b computed place by place, with the
\* borrow of the places below; the borrow out of place 63 is dropped.
SubtractFrom(a, b, i, borrow) ==
    IF i = 64 THEN {}
    ELSE LET digit == (IF i \in a THEN 1 ELSE 0)
                      - (IF i \in b THEN 1 ELSE 0) - borrow
         IN  (IF digit \in {1, -1} THEN {i} ELSE {})
             \cup SubtractFrom(a, b, i + 1, IF digit < 0 THEN 1 ELSE 0)

\* A mutant of wrapping_sub: a - b, or zero when b is larger than a.
saturating_sub(a, b) ==
    IF \E i \in b \ a : \A j \in a \ b : j < i THEN {}
    ELSE SubtractFrom(a, b, 0, 0)

\* u64::wrapping_sub: a - b modulo 2^64.
wrapping_sub(a, b) == SubtractFrom(a, b, 0, 0)

\* BitBoard::subsets: EMPTY once, chained with a PartialSubsetIter whose
\* subset field is 0.
BitBoard_subsets(self) ==
    [front |-> "once", bitboard |-> self, subset |-> EMPTY]

\* Iterator::next of that chain: the iterator after the call and the item
\* returned (a set: empty for None).
Iterator_next(it) ==
    IF it.front = "once"
    THEN [iterator |-> [it EXCEPT !.front = "partial"], item |-> {EMPTY}]
    ELSE LET subset == wrapping_sub(it.subset, it.bitboard)
                       \cap it.bitboard
         IN  IF subset = {}
             THEN [iterator |-> [it EXCEPT !.subset = subset,
                                           !.front = "done"],
                   item |-> {}]
             ELSE [iterator |-> [it EXCEPT !.subset = subset],
                   item |-> {subset}]

(***************************************************************************)
(* Score (hash-search/src/score.rs): one i16 field, value.                 *)
(***************************************************************************)
I16_MIN == -32768

I16_MAX == 32767

\* An i16 operation whose mathematical result is x: the result when the
\* operation wraps.
i16(x) == ((x - I16_MIN) % 65536) + I16_MIN

\* The mathematical result x of an i16 operation does not fit in an i16.
Overflows(x) == x < I16_MIN \/ x > I16_MAX

\* i16::signum
signum(x) == IF x > 0 THEN 1 ELSE IF x < 0 THEN -1 ELSE 0

\* i16::clamp
clamp(x, min, max) == IF x < min THEN min ELSE IF x > max THEN max ELSE x

MATE_MAXIMUM == I16_MAX

SCORE_MAXIMUM == 10

\* A mutant of from_mate_distance: the sign of the distance is not used.
from_mate_distance_Unsigned(distance) ==
    [value |-> i16(MATE_MAXIMUM - distance)]

\* Score::from_mate_distance
from_mate_distance(distance) ==
    [value |-> i16(i16(signum(distance) * MATE_MAXIMUM) - distance)]

\* A mutant of from_evaluation: the evaluation is not clamped.
from_evaluation_Unclamped(eval) == [value |-> eval]

\* Score::from_evaluation
from_evaluation(eval) ==
    [value |-> clamp(eval, -SCORE_MAXIMUM, SCORE_MAXIMUM)]

DRAW == [value |-> 0]

WORST == from_mate_distance(-1)

BEST == from_mate_distance(1)

\* Score::flip_in_place
flip_in_place(self) == [value |-> i16(self.value * (-1))]

\* Score::flip
flip(self) == flip_in_place(self)

\* The decimal digit d as a character.
Digit(d) == <<"0", "1", "2", "3", "4", "5", "6", "7", "8", "9">>[d + 1]

RECURSIVE Digits(_)
\* The decimal digits of a natural number, as characters.
Digits(n) ==
    IF n < 10 THEN <<Digit(n)>>
    ELSE Digits(n \div 10) \o <<Digit(n % 10)>>

\* impl Display for i16
i16_fmt(n) == IF n < 0 THEN <<"-">> \o Digits(-n) ELSE Digits(n)

\* i16 division, which truncates toward zero.
i16_div(a, b) == signum(a) * signum(b)
                 * ((IF a < 0 THEN -a ELSE a) \div (IF b < 0 THEN -b ELSE b))

\* impl Display for Score
Score_fmt(self) ==
    IF self.value > SCORE_MAXIMUM
    THEN <<"#">>
         \o i16_fmt(i16_div(i16(i16(i16(MATE_MAXIMUM * signum(self.value))
                                    - self.value) + 1), 2))
    ELSE i16_fmt(self.value)

(***************************************************************************)
(* The attack oracle (index): rays clipped by blockers, knight and king    *)
(* attacks.  A ray runs from a square to the first blocker, included.      *)
(***************************************************************************)
Ray(sq, df, dr, blockers) ==
    LET f == File(sq)
        r == Rank(sq)
        reach == {k \in 1 .. 7 :
                    /\ OnBoard(f + k * df, r + k * dr)
                    /\ \A j \in 1 .. (k - 1) :
                          Sq(f + j * df, r + j * dr) \notin blockers}
    IN  {Sq(f + k * df, r + k * dr) : k \in reach}

\* index::separated_rook_slides: (up, right, down, left)
separated_rook_slides(sq, blockers) ==
    <<Ray(sq, 0, 1, blockers), Ray(sq, 1, 0, blockers),
      Ray(sq, 0, -1, blockers), Ray(sq, -1, 0, blockers)>>

\* index::separated_bishop_slides: (up_left, up_right, down_right, down_left)
separated_bishop_slides(sq, blockers) ==
    <<Ray(sq, -1, 1, blockers), Ray(sq, 1, 1, blockers),
      Ray(sq, 1, -1, blockers), Ray(sq, -1, -1, blockers)>>

KnightSteps ==
    {<<1, 2>>, <<2, 1>>, <<2, -1>>, <<1, -2>>,
     <<-1, -2>>, <<-2, -1>>, <<-2, 1>>, <<-1, 2>>}

KingSteps ==
    {<<1, 0>>, <<1, 1>>, <<0, 1>>, <<-1, 1>>,
     <<-1, 0>>, <<-1, -1>>, <<0, -1>>, <<1, -1>>}

StepTargets(sq, steps) ==
    {Sq(File(sq) + d[1], Rank(sq) + d[2]) :
        d \in {e \in steps : OnBoard(File(sq) + e[1], Rank(sq) + e[2])}}

\* index::knight_attacks
knight_attacks(sq) == StepTargets(sq, KnightSteps)

\* index::king_attacks
king_attacks(sq) == StepTargets(sq, KingSteps)

(***************************************************************************)
(* Zobrist keys (index).  A hash is the XOR of independent keys: it is     *)
(* modelled as the set of the keys that occur in it an odd number of       *)
(* times, and XOR as the symmetric difference.                             *)
(***************************************************************************)
zobrist_piece(kind, color, sq) ==
    {[tag |-> "piece", color |-> color, kind |-> kind, n |-> sq,
      rights |-> {}]}

zobrist_castling_rights(rights) ==
    {[tag |-> "castling", color |-> "", kind |-> "", n |-> 0,
      rights |-> rights]}

zobrist_ep_file(file) ==
    {[tag |-> "ep", color |-> "", kind |-> "", n |-> file, rights |-> {}]}

zobrist_side(color) ==
    {[tag |-> "side", color |-> color, kind |-> "", n |-> 0, rights |-> {}]}

(***************************************************************************)
(* repr: piece kinds, players, the piece table.                            *)
(***************************************************************************)
PieceKinds == {"Pawn", "Knight", "Bishop", "Rook", "Queen", "King"}

None == "None"

Pins_EMPTY ==
    [vertical |-> EMPTY, horizontal |-> EMPTY, diagonal |-> EMPTY,
     anti_diagonal |-> EMPTY]

\* The bitboard of a player's pieces of one kind.
PieceBoard(player, kind) ==
    CASE kind = "Pawn" -> player.pawns
      [] kind = "Knight" -> player.knights
      [] kind = "Bishop" -> player.bishops
      [] kind = "Rook" -> player.rooks
      [] kind = "Queen" -> player.queens
      [] kind = "King" -> player.king

SetPieceBoard(player, kind, bb) ==
    CASE kind = "Pawn" -> [player EXCEPT !.pawns = bb]
      [] kind = "Knight" -> [player EXCEPT !.knights = bb]
      [] kind = "Bishop" -> [player EXCEPT !.bishops = bb]
      [] kind = "Rook" -> [player EXCEPT !.rooks = bb]
      [] kind = "Queen" -> [player EXCEPT !.queens = bb]
      [] kind = "King" -> [player EXCEPT !.king = bb]

\* Player::toggle_piece: toggles the square in the kind's bitboard and in
\* the occupation.
toggle_piece(player, kind, sq) ==
    [SetPieceBoard(player, kind, Xor(PieceBoard(player, kind), {sq}))
        EXCEPT !.occupation = Xor(@, {sq})]

\* Player::move_piece_unchecked
Player_move_piece_unchecked(player, kind, origin, target) ==
    toggle_piece(toggle_piece(player, kind, origin), kind, target)

\* PieceTable::move_piece
PieceTable_move_piece(table, origin, target) ==
    [table EXCEPT ![target] = table[origin], ![origin] = None]

\* BitBoard::first_one_as_square of the king bitboard.
KingSquare(player) == CHOOSE s \in player.king : \A t \in player.king : s <= t

(***************************************************************************)
(* Board (hash-core/src/board.rs).  A board is a record of the fields of   *)
(* struct Board; an Option is a set with at most one element.              *)
(***************************************************************************)
\* Board::white_player
white_player(b) ==
    IF b.current_color = "White" THEN b.current_player ELSE b.opposing_player

\* Board::black_player
black_player(b) ==
    IF b.current_color = "White" THEN b.opposing_player ELSE b.current_player

\* Board::get_piece: the kind and color of the piece on a square, if any.
get_piece(b, sq) ==
    IF b.piece_table[sq] = None THEN {}
    ELSE {[kind |-> b.piece_table[sq],
           color |-> IF sq \in b.current_player.occupation
                     THEN b.current_color ELSE Not(b.current_color)]}

\* Faulty variant of SlideRays: the rays are clipped by the pieces of both
\* sides, so a ray ends on the first friendly piece.
SlideRaysClippedByAll(b) ==
    LET opp == b.opposing_player
        diagonal_sliders == opp.bishops \cup opp.queens
        cross_sliders == opp.rooks \cup opp.queens
        king_square == KingSquare(b.current_player)
        all == opp.occupation \cup b.current_player.occupation
        rook == separated_rook_slides(king_square, all)
        bishop == separated_bishop_slides(king_square, all)
    IN  <<[ray |-> rook[1], casters |-> cross_sliders, axis |-> "vertical"],
          [ray |-> bishop[2], casters |-> diagonal_sliders,
           axis |-> "diagonal"],
          [ray |-> rook[2], casters |-> cross_sliders, axis |-> "horizontal"],
          [ray |-> bishop[3], casters |-> diagonal_sliders,
           axis |-> "anti_diagonal"],
          [ray |-> rook[3], casters |-> cross_sliders, axis |-> "vertical"],
          [ray |-> bishop[4], casters |-> diagonal_sliders,
           axis |-> "diagonal"],
          [ray |-> rook[4], casters |-> cross_sliders, axis |-> "horizontal"],
          [ray |-> bishop[1], casters |-> diagonal_sliders,
           axis |-> "anti_diagonal"]>>

\* The eight rays of update_slide_constraints, in the order of its update!
\* calls, each with the sliders that can cast it and the pin mask it feeds.
SlideRays(b) ==
    LET opp == b.opposing_player
        diagonal_sliders == opp.bishops \cup opp.queens
        cross_sliders == opp.rooks \cup opp.queens
        king_square == KingSquare(b.current_player)
        rook == separated_rook_slides(king_square, opp.occupation)
        bishop == separated_bishop_slides(king_square, opp.occupation)
        up == rook[1]
        right == rook[2]
        down == rook[3]
        left == rook[4]
        up_left == bishop[1]
        up_right == bishop[2]
        down_right == bishop[3]
        down_left == bishop[4]
    IN  <<[ray |-> up, casters |-> cross_sliders, axis |-> "vertical"],
          [ray |-> up_right, casters |-> diagonal_sliders, axis |-> "diagonal"],
          [ray |-> right, casters |-> cross_sliders, axis |-> "horizontal"],
          [ray |-> down_right, casters |-> diagonal_sliders,
           axis |-> "anti_diagonal"],
          [ray |-> down, casters |-> cross_sliders, axis |-> "vertical"],
          [ray |-> down_left, casters |-> diagonal_sliders,
           axis |-> "diagonal"],
          [ray |-> left, casters |-> cross_sliders, axis |-> "horizontal"],
          [ray |-> up_left, casters |-> diagonal_sliders,
           axis |-> "anti_diagonal"]>>

AddPin(pins, axis, ray) ==
    CASE axis = "vertical" -> [pins EXCEPT !.vertical = @ \cup ray]
      [] axis = "horizontal" -> [pins EXCEPT !.horizontal = @ \cup ray]
      [] axis = "diagonal" -> [pins EXCEPT !.diagonal = @ \cup ray]
      [] axis = "anti_diagonal" -> [pins EXCEPT !.anti_diagonal = @ \cup ray]

\* The update! macro applied to rays i, i + 1, ... of the list; the macro's
\* return ends the whole function.
RECURSIVE update(_, _, _)
update(player, rays, i) ==
    IF i > Len(rays) THEN player
    ELSE
        LET e == rays[i]
            blockers == e.ray \cap player.occupation
        IN  IF e.ray \cap e.casters # {}
            THEN IF is_a_single_one(blockers)
                 THEN update([player EXCEPT
                                 !.pins = AddPin(@, e.axis, e.ray)],
                             rays, i + 1)
                 ELSE IF blockers = EMPTY
                 THEN IF player.valid_targets = FULL
                      THEN update([player EXCEPT !.valid_targets = e.ray],
                                  rays, i + 1)
                      ELSE [player EXCEPT !.king_must_move = TRUE]
                 ELSE update(player, rays, i + 1)
            ELSE update(player, rays, i + 1)

\* Board::update_slide_constraints
update_slide_constraints(b) ==
    [b EXCEPT !.current_player = update(@, SlideRays(b), 1)]

\* Faulty variant of update_non_slide_constraints: the enemy pawns are left
\* out of the attackers.
update_non_slide_constraints_KnightsOnly(b) ==
    LET cur == b.current_player
        attackers ==
            knight_attacks(KingSquare(cur)) \cap b.opposing_player.knights
    IN  IF cur.king_must_move THEN b
        ELSE IF is_a_single_one(attackers)
        THEN IF cur.valid_targets = FULL
             THEN [b EXCEPT !.current_player.valid_targets = attackers]
             ELSE [b EXCEPT !.current_player.king_must_move = TRUE]
        ELSE IF attackers # EMPTY
        THEN [b EXCEPT !.current_player.king_must_move = TRUE]
        ELSE b

\* Board::update_non_slide_constraints
update_non_slide_constraints(b) ==
    LET cur == b.current_player
        attackers ==
            (knight_attacks(KingSquare(cur)) \cap b.opposing_player.knights)
            \cup ((move_one_up_left(cur.king, b.current_color)
                   \cup move_one_up_right(cur.king, b.current_color))
                  \cap b.opposing_player.pawns)
    IN  IF cur.king_must_move THEN b
        ELSE IF is_a_single_one(attackers)
        THEN IF cur.valid_targets = FULL
             THEN [b EXCEPT !.current_player.valid_targets = attackers]
             ELSE [b EXCEPT !.current_player.king_must_move = TRUE]
        ELSE IF attackers # EMPTY
        THEN [b EXCEPT !.current_player.king_must_move = TRUE]
        ELSE b

\* Faulty variant of update_move_constraints: king_must_move is not reset.
update_move_constraints_NoReset(b) ==
    LET reset == [b EXCEPT !.current_player.pins = Pins_EMPTY,
                           !.current_player.valid_targets = FULL]
    IN  update_non_slide_constraints(update_slide_constraints(reset))

\* Board::update_move_constraints (mg::gen_dangers writes no field of the
\* model).
update_move_constraints(b) ==
    LET reset == [b EXCEPT !.current_player.king_must_move = FALSE,
                           !.current_player.pins = Pins_EMPTY,
                           !.current_player.valid_targets = FULL]
    IN  update_non_slide_constraints(update_slide_constraints(reset))

\* Board::move_piece_unchecked
move_piece_unchecked(b, kind, origin, target) ==
    LET captured_kind == b.piece_table[target]
        moved ==
            [b EXCEPT
                !.piece_table = PieceTable_move_piece(@, origin, target),
                !.hash = Xor(Xor(@, zobrist_piece(kind, b.current_color,
                                                  origin)),
                             zobrist_piece(kind, b.current_color, target)),
                !.current_player =
                    Player_move_piece_unchecked(@, kind, origin, target)]
    IN  IF captured_kind # None
        THEN [moved EXCEPT
                !.hash = Xor(@, zobrist_piece(captured_kind,
                                              Not(b.current_color), target)),
                !.opposing_player = toggle_piece(@, captured_kind, target)]
        ELSE moved

\* Faulty variant of ClearEpData: the file leaves the hash but the data is
\* not taken out of the board.
ClearEpDataKeepsData(b) ==
    LET past_ep_data == b.ep_data
    IN  [b EXCEPT
            !.hash = IF past_ep_data = {} THEN @
                     ELSE Xor(@, UNION {zobrist_ep_file(File(e.pawn)) :
                                           e \in past_ep_data})]

\* make_move_unchecked, lines 180-185: the en-passant data is taken and its
\* file leaves the hash.
ClearEpData(b) ==
    LET past_ep_data == b.ep_data
    IN  [b EXCEPT
            !.ep_data = {},
            !.hash = IF past_ep_data = {} THEN @
                     ELSE Xor(@, UNION {zobrist_ep_file(File(e.pawn)) :
                                           e \in past_ep_data})]

\* Faulty variant of UpdateCastlingRights: the rights leave the hash and are
\* revoked, but the new rights are not added back to the hash.
UpdateCastlingRightsNotReadded(b, chess_move) ==
    [b EXCEPT
        !.hash = Xor(Xor(@, zobrist_castling_rights(
                                b.current_player.castling_rights)),
                     zobrist_castling_rights(
                         b.opposing_player.castling_rights)),
        !.current_player.castling_rights = @ \ {chess_move.origin},
        !.opposing_player.castling_rights = @ \ {chess_move.target}]

\* Faulty variant of UpdateCastlingRights: only the mover's right is revoked.
UpdateCastlingRightsOriginOnly(b, chess_move) ==
    LET removed ==
            [b EXCEPT !.hash =
                Xor(Xor(@, zobrist_castling_rights(
                               b.current_player.castling_rights)),
                    zobrist_castling_rights(
                        b.opposing_player.castling_rights))]
        revoked ==
            [removed EXCEPT
                !.current_player.castling_rights = @ \ {chess_move.origin}]
    IN  [revoked EXCEPT !.hash =
            Xor(Xor(@, zobrist_castling_rights(
                           revoked.current_player.castling_rights)),
                zobrist_castling_rights(
                    revoked.opposing_player.castling_rights))]

\* make_move_unchecked, lines 187-198: the castling rights.
UpdateCastlingRights(b, chess_move) ==
    LET removed ==
            [b EXCEPT !.hash =
                Xor(Xor(@, zobrist_castling_rights(
                               b.current_player.castling_rights)),
                    zobrist_castling_rights(
                        b.opposing_player.castling_rights))]
        revoked ==
            [removed EXCEPT
                !.current_player.castling_rights = @ \ {chess_move.origin},
                !.opposing_player.castling_rights = @ \ {chess_move.target}]
    IN  [revoked EXCEPT !.hash =
            Xor(Xor(@, zobrist_castling_rights(
                           revoked.current_player.castling_rights)),
                zobrist_castling_rights(
                    revoked.opposing_player.castling_rights))]

\* Faulty variant of ApplyPromotion: the pawn is not toggled off the target
\* square.
ApplyPromotionKeepsPawn(b, chess_move, kind) ==
    [b EXCEPT
        !.piece_table = [@ EXCEPT ![chess_move.target] = kind],
        !.current_player = toggle_piece(@, kind, chess_move.target),
        !.hash = Xor(Xor(@, zobrist_piece("Pawn", b.current_color,
                                          chess_move.target)),
                     zobrist_piece(kind, b.current_color,
                                   chess_move.target))]

\* make_move_unchecked, lines 215-236: MoveMeta::Promotion(kind)
ApplyPromotion(b, chess_move, kind) ==
    [b EXCEPT
        !.piece_table = [@ EXCEPT ![chess_move.target] = kind],
        !.current_player =
            toggle_piece(toggle_piece(@, "Pawn", chess_move.target),
                         kind, chess_move.target),
        !.hash = Xor(Xor(@, zobrist_piece("Pawn", b.current_color,
                                          chess_move.target)),
                     zobrist_piece(kind, b.current_color,
                                   chess_move.target))]

\* Faulty variant of ApplyEnPassant: the captured pawn stays in the hash.
ApplyEnPassantStaleHash(b, past_ep_data) ==
    LET pawn_square == (CHOOSE e \in past_ep_data : TRUE).pawn
    IN  [b EXCEPT
            !.opposing_player = toggle_piece(@, "Pawn", pawn_square),
            !.piece_table = [@ EXCEPT ![pawn_square] = None]]

\* make_move_unchecked, lines 237-251: MoveMeta::EnPassant
ApplyEnPassant(b, past_ep_data) ==
    LET pawn_square == (CHOOSE e \in past_ep_data : TRUE).pawn
    IN  [b EXCEPT
            !.opposing_player = toggle_piece(@, "Pawn", pawn_square),
            !.piece_table = [@ EXCEPT ![pawn_square] = None],
            !.hash = Xor(@, zobrist_piece("Pawn", Not(b.current_color),
                                          pawn_square))]

\* Square::move_one_down_unchecked
Square_move_one_down_unchecked(sq, color) ==
    IF color = "White" THEN sq - 8 ELSE sq + 8

\* make_move_unchecked, lines 252-265: MoveMeta::DoublePush
ApplyDoublePush(b, chess_move) ==
    [b EXCEPT
        !.hash = Xor(@, zobrist_ep_file(File(chess_move.origin))),
        !.ep_data =
            {[capture_point |->
                 {Square_move_one_down_unchecked(chess_move.target,
                                                 b.current_color)},
              pawn |-> chess_move.target]}]

\* Faulty variant of ApplyCastleKs: the rook of the first rank is moved
\* whatever the color.
ApplyCastleKsFirstRank(b) == move_piece_unchecked(b, "Rook", H1, F1)

\* make_move_unchecked, lines 266-279: MoveMeta::CastleKs
ApplyCastleKs(b) ==
    IF b.current_color = "White"
    THEN move_piece_unchecked(b, "Rook", H1, F1)
    ELSE move_piece_unchecked(b, "Rook", H8, F8)

\* make_move_unchecked, lines 280-293: MoveMeta::CastleQs
ApplyCastleQs(b) ==
    IF b.current_color = "White"
    THEN move_piece_unchecked(b, "Rook", A1, D1)
    ELSE move_piece_unchecked(b, "Rook", A8, D8)

\* make_move_unchecked, lines 214-295: match chess_move.meta
ApplyMeta(b, chess_move, past_ep_data) ==
    CASE chess_move.meta = "Promotion" ->
            ApplyPromotion(b, chess_move, chess_move.promotion)
      [] chess_move.meta = "EnPassant" -> ApplyEnPassant(b, past_ep_data)
      [] chess_move.meta = "DoublePush" -> ApplyDoublePush(b, chess_move)
      [] chess_move.meta = "CastleKs" -> ApplyCastleKs(b)
      [] chess_move.meta = "CastleQs" -> ApplyCastleQs(b)
      [] chess_move.meta = "None" -> b

\* Faulty variant of SwitchSides: the color changes but the two Player
\* records are not swapped.
SwitchSidesNoSwap(b) ==
    update_move_constraints(
        [b EXCEPT
            !.hash = Xor(Xor(@, zobrist_side(b.current_color)),
                         zobrist_side(Not(b.current_color))),
            !.current_color = Not(@)])

\* make_move_unchecked, lines 297-301: the side to move changes.
SwitchSides(b) ==
    LET toggled ==
            [b EXCEPT
                !.hash = Xor(Xor(@, zobrist_side(b.current_color)),
                             zobrist_side(Not(b.current_color))),
                !.current_color = Not(@)]
    IN  update_move_constraints(
            [toggled EXCEPT !.current_player = toggled.opposing_player,
                            !.opposing_player = toggled.current_player])

\* Faulty variant of make_move_unchecked: only a capture is reported.
make_move_unchecked_CaptureOnly(b, chess_move) ==
    LET past_ep_data == b.ep_data
        is_capture == b.piece_table[chess_move.target] # None
        s1 == UpdateCastlingRights(ClearEpData(b), chess_move)
        s2 == move_piece_unchecked(s1, chess_move.moved_piece_kind,
                                   chess_move.origin, chess_move.target)
        s3 == ApplyMeta(s2, chess_move, past_ep_data)
    IN  [board |-> SwitchSides(s3), result |-> is_capture]

\* Board::make_move_unchecked: the board after the move, and the boolean the
\* function returns.
make_move_unchecked(b, chess_move) ==
    LET past_ep_data == b.ep_data
        is_capture == b.piece_table[chess_move.target] # None
        is_pawn_move == chess_move.moved_piece_kind = "Pawn"
        s1 == UpdateCastlingRights(ClearEpData(b), chess_move)
        s2 == move_piece_unchecked(s1, chess_move.moved_piece_kind,
                                   chess_move.origin, chess_move.target)
        s3 == ApplyMeta(s2, chess_move, past_ep_data)
    IN  [board |-> SwitchSides(s3), result |-> is_pawn_move \/ is_capture]

\* The Zobrist hash of a board computed from scratch: piece placement, side
\* to move, both players' castling rights, en-passant file.
ZobristFromScratch(b) ==
    LET pieces(player, color) ==
            UNION {zobrist_piece(k, color, s) :
                      <<k, s>> \in {<<k2, s2>> \in PieceKinds \X Squares :
                                       s2 \in PieceBoard(player, k2)}}
        placement == pieces(white_player(b), "White")
                     \cup pieces(black_player(b), "Black")
        rights == Xor(zobrist_castling_rights(
                          b.current_player.castling_rights),
                      zobrist_castling_rights(
                          b.opposing_player.castling_rights))
        ep == UNION {zobrist_ep_file(File(e.pawn)) : e \in b.ep_data}
    IN  Xor(Xor(Xor(placement, zobrist_side(b.current_color)), rights), ep)

(***************************************************************************)
(* The legal moves of a position (mg, the move generator): the inputs of   *)
(* make_move_unchecked.                                                    *)
(***************************************************************************)
Occupied(b) == b.current_player.occupation \cup b.opposing_player.occupation

CrossDirs == {<<0, 1>>, <<1, 0>>, <<0, -1>>, <<-1, 0>>}

DiagonalDirs == {<<1, 1>>, <<1, -1>>, <<-1, -1>>, <<-1, 1>>}

Slides(sq, dirs, occ) == UNION {Ray(sq, d[1], d[2], occ) : d \in dirs}

\* Whether a piece of the attacker (of the given color) attacks the square.
AttackedBy(attacker, color, sq, occ) ==
    \/ knight_attacks(sq) \cap attacker.knights # {}
    \/ king_attacks(sq) \cap attacker.king # {}
    \/ sq \in move_one_up_left(attacker.pawns, color)
    \/ sq \in move_one_up_right(attacker.pawns, color)
    \/ Slides(sq, CrossDirs, occ) \cap (attacker.rooks \cup attacker.queens)
         # {}
    \/ Slides(sq, DiagonalDirs, occ)
         \cap (attacker.bishops \cup attacker.queens) # {}

Move(origin, target, kind, meta, promotion) ==
    [origin |-> origin, target |-> target, moved_piece_kind |-> kind,
     meta |-> meta, promotion |-> promotion]

PromotionKinds == {"Queen", "Rook", "Bishop", "Knight"}

PawnMoves(b, o) ==
    LET c == b.current_color
        occ == Occupied(b)
        one == move_one_up({o}, c) \ occ
        two == IF Rank(o) = (IF c = "White" THEN 1 ELSE 6)
               THEN move_one_up(one, c) \ occ ELSE {}
        diag == move_one_up_left({o}, c) \cup move_one_up_right({o}, c)
        takes == diag \cap b.opposing_player.occupation
        ep == diag \cap UNION {e.capture_point : e \in b.ep_data}
        plain(t) == IF Rank(t) \in {0, 7}
                    THEN {Move(o, t, "Pawn", "Promotion", k) :
                             k \in PromotionKinds}
                    ELSE {Move(o, t, "Pawn", "None", None)}
    IN  UNION {plain(t) : t \in one \cup takes}
        \cup {Move(o, t, "Pawn", "DoublePush", None) : t \in two}
        \cup {Move(o, t, "Pawn", "EnPassant", None) : t \in ep}

PieceTargets(b, o, kind) ==
    LET occ == Occupied(b)
        reach == CASE kind = "Knight" -> knight_attacks(o)
                   [] kind = "King" -> king_attacks(o)
                   [] kind = "Rook" -> Slides(o, CrossDirs, occ)
                   [] kind = "Bishop" -> Slides(o, DiagonalDirs, occ)
                   [] kind = "Queen" -> Slides(o, CrossDirs, occ)
                                        \cup Slides(o, DiagonalDirs, occ)
    IN  reach \ b.current_player.occupation

CastleMoves(b) ==
    LET c == b.current_color
        r == IF c = "White" THEN 0 ELSE 7
        cur == b.current_player
        occ == Occupied(b)
        safe(squares) ==
            \A s \in squares : ~AttackedBy(b.opposing_player, Not(c), s, occ)
        king_home == cur.king = {Sq(4, r)} /\ Sq(4, r) \in cur.castling_rights
        ks == /\ king_home
              /\ Sq(7, r) \in cur.castling_rights
              /\ Sq(7, r) \in cur.rooks
              /\ {Sq(5, r), Sq(6, r)} \cap occ = {}
              /\ safe({Sq(4, r), Sq(5, r), Sq(6, r)})
        qs == /\ king_home
              /\ Sq(0, r) \in cur.castling_rights
              /\ Sq(0, r) \in cur.rooks
              /\ {Sq(1, r), Sq(2, r), Sq(3, r)} \cap occ = {}
              /\ safe({Sq(4, r), Sq(3, r), Sq(2, r)})
    IN  (IF ks THEN {Move(Sq(4, r), Sq(6, r), "King", "CastleKs", None)}
         ELSE {})
        \cup (IF qs THEN {Move(Sq(4, r), Sq(2, r), "King", "CastleQs", None)}
              ELSE {})

PseudoLegalMoves(b) ==
    UNION {IF b.piece_table[o] = "Pawn" THEN PawnMoves(b, o)
           ELSE {Move(o, t, b.piece_table[o], "None", None) :
                    t \in PieceTargets(b, o, b.piece_table[o])} :
           o \in b.current_player.occupation}
    \cup CastleMoves(b)

\* A move is legal when it does not leave the mover's king attacked.
LeavesKingSafe(b, chess_move) ==
    LET after == make_move_unchecked(b, chess_move).board
    IN  ~AttackedBy(after.current_player, after.current_color,
                    KingSquare(after.opposing_player), Occupied(after))

LegalMoves(b) == {m \in PseudoLegalMoves(b) : LeavesKingSafe(b, m)}

(***************************************************************************)
(* Positions a game starts from.                                           *)
(***************************************************************************)
Player_new(pieces, rights) ==
    LET of(kind) == {p[2] : p \in {q \in pieces : q[1] = kind}}
    IN  [pawns |-> of("Pawn"), knights |-> of("Knight"),
         bishops |-> of("Bishop"), rooks |-> of("Rook"),
         queens |-> of("Queen"), king |-> of("King"),
         occupation |-> {p[2] : p \in pieces},
         castling_rights |-> rights, pins |-> Pins_EMPTY,
         valid_targets |-> FULL, king_must_move |-> FALSE]

\* A board set up from the two sides' pieces (sets of <<kind, square>>) and
\* castling rights, the side to move and the en-passant data.
Board_raw(white, whiteRights, black, blackRights, color, ep_data) ==
    LET w == Player_new(white, whiteRights)
        k == Player_new(black, blackRights)
        table == [s \in Squares |->
                    IF \E p \in white \cup black : p[2] = s
                    THEN (CHOOSE p \in white \cup black : p[2] = s)[1]
                    ELSE None]
        raw == [current_player |-> IF color = "White" THEN w ELSE k,
                opposing_player |-> IF color = "White" THEN k ELSE w,
                current_color |-> color, piece_table |-> table,
                ep_data |-> ep_data, hash |-> {}]
    IN  [raw EXCEPT !.hash = ZobristFromScratch(raw)]

\* The same with the constraints of the side to move computed.
Board_new(white, whiteRights, black, blackRights, color, ep_data) ==
    update_move_constraints(
        Board_raw(white, whiteRights, black, blackRights, color, ep_data))

BackRank(r) ==
    {<<"Rook", Sq(0, r)>>, <<"Knight", Sq(1, r)>>, <<"Bishop", Sq(2, r)>>,
     <<"Queen", Sq(3, r)>>, <<"King", Sq(4, r)>>, <<"Bishop", Sq(5, r)>>,
     <<"Knight", Sq(6, r)>>, <<"Rook", Sq(7, r)>>}

PawnRank(r) == {<<"Pawn", Sq(f, r)>> : f \in 0 .. 7}

HomeRights(r) == {Sq(0, r), Sq(4, r), Sq(7, r)}

\* Board::starting_position
starting_position ==
    Board_new(BackRank(0) \cup PawnRank(1), HomeRights(0),
              BackRank(7) \cup PawnRank(6), HomeRights(7), "White", {})

\* A middle game, White to move: both sides may castle, the white b-pawn
\* promotes (also by capturing on a8 or c8), e2-e4 can be captured en passant
\* by the black d4-pawn.
MiddleGameWhite ==
    Board_new({<<"King", E1>>, <<"Rook", A1>>, <<"Rook", H1>>,
               <<"Pawn", Sq(4, 1)>>, <<"Pawn", Sq(1, 6)>>,
               <<"Knight", Sq(2, 2)>>},
              HomeRights(0),
              {<<"King", E8>>, <<"Rook", A8>>, <<"Rook", H8>>,
               <<"Pawn", Sq(3, 3)>>, <<"Bishop", C8>>,
               <<"Pawn", Sq(7, 6)>>},
              HomeRights(7), "White", {})

\* The same with the colors exchanged, Black to move.
MiddleGameBlack ==
    Board_new({<<"King", E1>>, <<"Rook", A1>>, <<"Rook", H1>>,
               <<"Pawn", Sq(3, 4)>>, <<"Bishop", C1>>,
               <<"Pawn", Sq(7, 1)>>},
              HomeRights(0),
              {<<"King", E8>>, <<"Rook", A8>>, <<"Rook", H8>>,
               <<"Pawn", Sq(4, 6)>>, <<"Pawn", Sq(1, 1)>>,
               <<"Knight", Sq(2, 5)>>},
              HomeRights(7), "Black", {})

InitialBoards == {starting_position, MiddleGameWhite, MiddleGameBlack}

(***************************************************************************)
(* Text.  A &str is the sequence of its characters; a character is a       *)
(* one-character string, except the two-byte character "U+00E9".  Lengths  *)
(* and slice bounds of a &str count bytes.                                 *)
(***************************************************************************)
Width(ch) == IF ch = "U+00E9" THEN 2 ELSE 1

RECURSIVE ByteLen(_)
\* str::len
ByteLen(str) ==
    IF str = <<>> THEN 0 ELSE Width(Head(str)) + ByteLen(Tail(str))

\* The byte offset at which character i of the text starts.
Offset(str, i) == ByteLen(SubSeq(str, 1, i - 1))

\* str::is_char_boundary
is_char_boundary(str, n) ==
    n = ByteLen(str) \/ \E i \in 1 .. Len(str) : Offset(str, i) = n

\* &str[from..to]: the characters of the byte range, or a panic when a
\* bound is past the end or inside a character.
Slice(str, from, to) ==
    IF to <= ByteLen(str) /\ is_char_boundary(str, from)
       /\ is_char_boundary(str, to)
    THEN LET inside == SelectSeq(
                 [i \in 1 .. Len(str) |-> <<str[i], Offset(str, i)>>],
                 LAMBDA p : p[2] >= from /\ p[2] < to)
         IN  [panic |-> FALSE,
              text |-> [i \in 1 .. Len(inside) |-> inside[i][1]]]
    ELSE [panic |-> TRUE, text |-> <<>>]

FileText == <<"a", "b", "c", "d", "e", "f", "g", "h">>

RankText == <<"1", "2", "3", "4", "5", "6", "7", "8">>

\* Square::from_str on the characters of a slice: a file letter and a rank
\* digit, anything else is an error.
Square_from_str(slice) ==
    IF /\ Len(slice) = 2
       /\ \E f \in 1 .. 8 : FileText[f] = slice[1]
       /\ \E r \in 1 .. 8 : RankText[r] = slice[2]
    THEN {Sq((CHOOSE f \in 1 .. 8 : FileText[f] = slice[1]) - 1,
             (CHOOSE r \in 1 .. 8 : RankText[r] = slice[2]) - 1)}
    ELSE {}

\* Display of a square.
SquareText(sq) == <<FileText[File(sq) + 1], RankText[Rank(sq) + 1]>>

PromotionLetter(kind) ==
    CASE kind = "Queen" -> "q"
      [] kind = "Rook" -> "r"
      [] kind = "Bishop" -> "b"
      [] kind = "Knight" -> "n"

\* The coordinate text of a move: origin, target, and the promotion letter
\* of a promotion.
Format(m) ==
    SquareText(m.origin) \o SquareText(m.target)
    \o (IF m.meta = "Promotion" THEN <<PromotionLetter(m.promotion)>>
        ELSE <<>>)

(***************************************************************************)
(* Results of the calls the model records.                                 *)
(***************************************************************************)
\* interpret_move has not been called.
NoResult == [tag |-> "none", move |-> {}, err |-> ""]

\* Ok(Move)
OkMove(m) == [tag |-> "Ok", move |-> {m}, err |-> ""]

\* Err(&'static str)
Err(text) == [tag |-> "Err", move |-> {}, err |-> text]

\* The call did not return: it panicked.
Panicked == [tag |-> "panic", move |-> {}, err |-> ""]

\* interpret_move, lines 344-350: the promotion of a pawn from the fifth
\* character.
promotion_meta(origin, target, letter) ==
    IF letter.panic THEN Panicked
    ELSE IF \E k \in PromotionKinds : <<PromotionLetter(k)>> = letter.text
    THEN OkMove(Move(origin, target, "Pawn", "Promotion",
                     CHOOSE k \in PromotionKinds :
                         <<PromotionLetter(k)>> = letter.text))
    ELSE Err("Invalid promotion piece")

\* Faulty variant of interpret_meta: a pawn that changes file onto an empty
\* square is not taken for an en-passant capture.
interpret_meta_NoEnPassant(b, move_str, origin, target, moved_piece_kind) ==
    LET kind == moved_piece_kind
        plain == OkMove(Move(origin, target, kind, "None", None))
    IN  IF kind = "King" /\ (origin = E1 \/ origin = E8)
        THEN IF target = G1 \/ target = G8
             THEN OkMove(Move(origin, target, kind, "CastleKs", None))
             ELSE IF target = C1 \/ target = C8
             THEN OkMove(Move(origin, target, kind, "CastleQs", None))
             ELSE plain
        ELSE IF kind = "Pawn"
        THEN IF (Rank(origin) = 1 \/ Rank(origin) = 6)
                /\ (Rank(target) = 3 \/ Rank(target) = 4)
             THEN OkMove(Move(origin, target, kind, "DoublePush", None))
             ELSE IF ByteLen(move_str) = 5
             THEN promotion_meta(origin, target, Slice(move_str, 4, 5))
             ELSE plain
        ELSE plain

\* interpret_move, lines 320-355: the move and its meta.
interpret_meta(b, move_str, origin, target, moved_piece_kind) ==
    LET kind == moved_piece_kind
        plain == OkMove(Move(origin, target, kind, "None", None))
    IN  IF kind = "King" /\ (origin = E1 \/ origin = E8)
        THEN IF target = G1 \/ target = G8
             THEN OkMove(Move(origin, target, kind, "CastleKs", None))
             ELSE IF target = C1 \/ target = C8
             THEN OkMove(Move(origin, target, kind, "CastleQs", None))
             ELSE plain
        ELSE IF kind = "Pawn"
        THEN IF (Rank(origin) = 1 \/ Rank(origin) = 6)
                /\ (Rank(target) = 3 \/ Rank(target) = 4)
             THEN OkMove(Move(origin, target, kind, "DoublePush", None))
             ELSE IF File(origin) # File(target) /\ get_piece(b, target) = {}
             THEN OkMove(Move(origin, target, kind, "EnPassant", None))
             ELSE IF ByteLen(move_str) = 5
             THEN promotion_meta(origin, target, Slice(move_str, 4, 5))
             ELSE plain
        ELSE plain

\* Board::interpret_move
interpret_move(b, move_str) ==
    IF ByteLen(move_str) < 4 \/ ByteLen(move_str) > 5
    THEN Err("Input too short")
    ELSE
        LET first == Slice(move_str, 0, 2)
            origin == Square_from_str(first.text)
            second == Slice(move_str, 2, 4)
            target == Square_from_str(second.text)
        IN  IF first.panic THEN Panicked
            ELSE IF origin = {} THEN Err("Invalid square")
            ELSE IF second.panic THEN Panicked
            ELSE IF target = {} THEN Err("Invalid square")
            ELSE LET o == CHOOSE sq \in origin : TRUE
                     t == CHOOSE sq \in target : TRUE
                 IN  IF get_piece(b, o) = {}
                     THEN Err("Move is impossible in the given context")
                     ELSE interpret_meta(b, move_str, o, t,
                                         b.piece_table[o])

\* No directional shift has been applied.
NoShift == [direction |-> "none", color |-> "White", result |-> EMPTY,
            back |-> EMPTY]

(***************************************************************************)
(* The board's one state-changing operation, as an action.                 *)
(***************************************************************************)
MakeMove ==
    /\ ply < MaxPly
    /\ \E chess_move \in LegalMoves(board) :
        LET made == make_move_unchecked(board, chess_move)
        IN  /\ board' = made.board
            /\ irreversible' = made.result
            /\ lastMove' = {chess_move}
    /\ ply' = ply + 1
    /\ constrained' = TRUE
    /\ UNCHANGED <<searchVars, callVars>>

(***************************************************************************)
(* Specifications of the search worker.                                    *)
(***************************************************************************)
\* No vertical_flip has been applied.
NoFlip == [result |-> EMPTY, back |-> EMPTY, called |-> FALSE]

\* No iterator has been created by subsets().
NoIterator == [front |-> "none", bitboard |-> EMPTY, subset |-> EMPTY]

\* No Score has been built by a constructor call.
NotBuilt == [from |-> "none", argument |-> 0, flips |-> 0]

\* Display has written nothing.
NotDisplayed == <<"none">>

\* No vertical_flip, subsets(), Score constructor or Display call has been
\* made.
ValueIdle ==
    /\ flipped = NoFlip
    /\ subsets = NoIterator
    /\ yielded = <<>>
    /\ score = DRAW
    /\ built = NotBuilt
    /\ displayed = NotDisplayed

\* No call of interpret_move or of a directional shift has been made.
CallIdle ==
    /\ move_text = <<>>
    /\ formatted = {}
    /\ interpreted = NoResult
    /\ bitboard = EMPTY
    /\ shifted = NoShift
    /\ ValueIdle

BoardIdle ==
    /\ board = starting_position
    /\ ply = 0
    /\ lastMove = {}
    /\ irreversible = FALSE
    /\ constrained = TRUE
    /\ CallIdle

SearchInit ==
    /\ BoardIdle
    /\ commandQueue = <<>>
    /\ commandSenderAlive = TRUE
    /\ bestMoveQueue = <<>>
    /\ bestMoveReceiverAlive = TRUE
    /\ worker = "poll"
    /\ command = NoCommand
    /\ tree \in {Tree_new, expand(Tree_new, <<>>)}
    /\ payload = NoPayload
    /\ controller = "idle"
    /\ received = <<>>
    /\ joinResult = NotJoined
    /\ sentCommands = <<>>
    /\ handledCommands = <<>>
    /\ sentMoves = <<>>

SearchNext ==
    \/ PollEmpty
    \/ FinishExpand
    \/ PollCommand
    \/ PollDisconnected
    \/ HandleSendAndPlayBestMove
    \/ HandleSendAndPlayBestMoveUnexpanded
    \/ HandlePlayedMove
    \/ Send
    \/ DropCommandSender
    \/ DropBestMoveReceiver
    \/ StartReceive
    \/ FinishReceive
    \/ join

\* The worker with a selector and a network that keep their contract.
SearchSpec == SearchInit /\ [][SearchNext]_vars

\* The same under fair scheduling of the worker thread and of a blocked recv.
SearchFairSpec ==
    SearchInit /\ [][SearchNext]_vars /\ WF_vars(WorkerStep)
    /\ WF_vars(FinishReceive)

\* The worker with a selector or a network that may panic inside expand.
SearchPanicNext == SearchNext \/ ExpandPanics

SearchPanicSpec == SearchInit /\ [][SearchPanicNext]_vars

(***************************************************************************)
(* Specification of the board: a game of at most MaxPly legal moves from   *)
(* one of the initial positions.                                           *)
(***************************************************************************)
SearchIdle ==
    /\ commandQueue = <<>>
    /\ commandSenderAlive = TRUE
    /\ bestMoveQueue = <<>>
    /\ bestMoveReceiverAlive = TRUE
    /\ worker = "poll"
    /\ command = NoCommand
    /\ tree = Tree_new
    /\ payload = NoPayload
    /\ controller = "idle"
    /\ received = <<>>
    /\ joinResult = NotJoined
    /\ sentCommands = <<>>
    /\ handledCommands = <<>>
    /\ sentMoves = <<>>

BoardInit ==
    /\ SearchIdle
    /\ board \in InitialBoards
    /\ ply = 0
    /\ lastMove = {}
    /\ irreversible = FALSE
    /\ constrained = TRUE
    /\ CallIdle

BoardNext == MakeMove

BoardSpec == BoardInit /\ [][BoardNext]_vars

(***************************************************************************)
(* Specification of the move constraints: update_move_constraints is       *)
(* applied to a position of the side to move's king in a corner, with a    *)
(* few enemy and friendly pieces on the sixteen squares of that corner.    *)
(***************************************************************************)
Corners == {A1, H1, A8, H8}

\* The other squares of the 4 x 4 corner of a king square.
Block(k) ==
    {s \in Squares :
        /\ s # k
        /\ File(s) - File(k) \in -3 .. 3
        /\ Rank(s) - Rank(k) \in -3 .. 3}

\* The side to move: the one whose king stands on its own back rank.
Defender(k) == IF Rank(k) = 0 THEN "White" ELSE "Black"

\* The square of the other king, off every line through k.
FarKing(k) == Sq(7 - File(k), IF Rank(k) = 0 THEN 6 ELSE 1)

AttackerKinds == {"Queen", "Rook", "Bishop", "Knight", "Pawn"}

BlockerKinds == {"Knight"}

\* An enemy piece placed in the corner; pawns do not stand on a back rank.
Attackers(k) ==
    {[side |-> "attacker", kind |-> kind, sq |-> sq] :
        <<kind, sq>> \in {<<kd, s>> \in AttackerKinds \X Block(k) :
                              kd = "Pawn" => Rank(s) \notin {0, 7}}}

\* A friendly piece placed in the corner.
Blockers(k) ==
    {[side |-> "blocker", kind |-> kind, sq |-> sq] :
        kind \in BlockerKinds, sq \in Block(k)}

RECURSIVE Placed(_, _)
\* The sets of at most n of the given placements, on distinct squares.
Placed(placements, n) ==
    IF n = 0 THEN {{}}
    ELSE LET fewer == Placed(placements, n - 1)
         IN  fewer \cup {ps \cup {pl} :
                            <<ps, pl>> \in {<<x, y>> \in fewer \X placements :
                                                \A q \in x : q.sq # y.sq}}

\* The placements of the positions: up to MaxAttackers enemy pieces alone,
\* or at most one enemy piece and up to MaxBlockers friendly pieces.
PieceSets(k) ==
    Placed(Attackers(k), MaxAttackers)
    \cup {as \cup bs :
             <<as, bs>> \in {<<x, y>> \in Placed(Attackers(k), 1)
                                          \X Placed(Blockers(k), MaxBlockers) :
                                 \A q \in x : \A r \in y : q.sq # r.sq}}

\* What the derived fields of the side to move hold before the update:
\* values left from an earlier ply.
Stale(b) ==
    [b EXCEPT !.current_player.king_must_move = TRUE,
              !.current_player.valid_targets = EMPTY,
              !.current_player.pins =
                  [vertical |-> FULL, horizontal |-> FULL,
                   diagonal |-> FULL, anti_diagonal |-> FULL]]

\* The position of king square k and placements ps, constraints not yet
\* computed.
CornerBoard(k, ps) ==
    LET own == {<<"King", k>>}
               \cup {<<q.kind, q.sq>> : q \in {x \in ps : x.side = "blocker"}}
        enemy == {<<"King", FarKing(k)>>}
                 \cup {<<q.kind, q.sq>> :
                          q \in {x \in ps : x.side = "attacker"}}
    IN  Stale(IF Defender(k) = "White"
              THEN Board_raw(own, {}, enemy, {}, "White", {})
              ELSE Board_raw(enemy, {}, own, {}, "Black", {}))

UpdateMoveConstraints ==
    /\ ~constrained
    /\ board' = update_move_constraints(board)
    /\ constrained' = TRUE
    /\ UNCHANGED <<searchVars, ply, lastMove, irreversible, callVars>>

ConstraintInit ==
    /\ SearchIdle
    /\ \E k \in Corners :
          \E ps \in PieceSets(k) : board = CornerBoard(k, ps)
    /\ ply = 0
    /\ lastMove = {}
    /\ irreversible = FALSE
    /\ constrained = FALSE
    /\ CallIdle

ConstraintNext == UpdateMoveConstraints

ConstraintSpec == ConstraintInit /\ [][ConstraintNext]_vars

(***************************************************************************)
(* Specification of interpret_move: it is called once, on an initial       *)
(* position or a position one legal move later, with the coordinate text   *)
(* of a legal move or with another text.                                   *)
(***************************************************************************)
InterpretBoards ==
    InitialBoards
    \cup {make_move_unchecked(b, m).board :
             <<b, m>> \in {<<x, y>> \in InitialBoards
                                      \X UNION {LegalMoves(z) :
                                                   z \in InitialBoards} :
                             y \in LegalMoves(x)}}

Chars == {"e", "2", "4", "x", "U+00E9"}

RECURSIVE Strings(_)
\* The texts of at most n of these characters.
Strings(n) ==
    IF n = 0 THEN {<<>>}
    ELSE LET shorter == Strings(n - 1)
         IN  shorter \cup {Append(str, ch) : str \in shorter, ch \in Chars}

\* Texts made from the coordinate text of a legal move: a character added,
\* the fifth character changed, a character of a square changed, origin
\* and target exchanged.
Variants(m) ==
    LET text == Format(m)
        squares == SubSeq(text, 1, 4)
    IN  {Append(text, ch) : ch \in {"q", "x", "U+00E9"}}
        \cup {Append(squares, ch) : ch \in {"k", "x", "Q"}}
        \cup {[text EXCEPT ![i] = ch] : i \in 1 .. 4, ch \in {"i", "9"}}
        \cup {SquareText(m.target) \o SquareText(m.origin)}

Texts(b) ==
    (Strings(MaxChars) \cup UNION {Variants(m) : m \in LegalMoves(b)})
    \ {Format(m) : m \in LegalMoves(b)}

\* interpret_move is given the coordinate text of a legal move.
InterpretLegalMove ==
    /\ interpreted = NoResult
    /\ \E m \in LegalMoves(board) :
          /\ move_text' = Format(m)
          /\ formatted' = {m}
          /\ interpreted' = interpret_move(board, Format(m))
    /\ UNCHANGED <<searchVars, board, ply, lastMove, irreversible,
                   constrained, bitboard, shifted, valueVars>>

\* interpret_move is given another text.
InterpretText ==
    /\ interpreted = NoResult
    /\ \E text \in Texts(board) :
          /\ move_text' = text
          /\ interpreted' = interpret_move(board, text)
    /\ formatted' = {}
    /\ UNCHANGED <<searchVars, board, ply, lastMove, irreversible,
                   constrained, bitboard, shifted, valueVars>>

InterpretInit ==
    /\ SearchIdle
    /\ board \in InterpretBoards
    /\ ply = 0
    /\ lastMove = {}
    /\ irreversible = FALSE
    /\ constrained = TRUE
    /\ CallIdle

InterpretNext == InterpretLegalMove \/ InterpretText

InterpretSpec == InterpretInit /\ [][InterpretNext]_vars

(***************************************************************************)
(* Specification of the directional shifts of BitBoard: one of the four    *)
(* shifts is applied, for either color, to a bitboard, and then the        *)
(* opposite shift to the result.                                           *)
(***************************************************************************)
Colors == {"White", "Black"}

Directions == {"up", "down", "right", "left"}

RECURSIVE SmallBoards(_)
\* The bitboards of at most n squares.
SmallBoards(n) ==
    IF n = 0 THEN {EMPTY}
    ELSE LET fewer == SmallBoards(n - 1)
         IN  fewer \cup {bb \cup {s} : bb \in fewer, s \in Squares}

\* The bitboards the shifts are applied to: the small ones and the masks.
ShiftBoards ==
    SmallBoards(MaxBits) \cup {FULL, A_FILE, H_FILE, RANK_1, RANK_8}

move_one(direction, bb, c) ==
    CASE direction = "up" -> move_one_up(bb, c)
      [] direction = "down" -> move_one_down(bb, c)
      [] direction = "right" -> move_one_right(bb, c)
      [] direction = "left" -> move_one_left(bb, c)

Opposite(direction) ==
    CASE direction = "up" -> "down"
      [] direction = "down" -> "up"
      [] direction = "right" -> "left"
      [] direction = "left" -> "right"

Shift ==
    \E direction \in Directions, c \in Colors :
        LET result == move_one(direction, bitboard, c)
        IN  shifted' = [direction |-> direction, color |-> c,
                        result |-> result,
                        back |-> move_one(Opposite(direction), result, c)]
    /\ UNCHANGED <<searchVars, board, ply, lastMove, irreversible,
                   constrained, move_text, formatted, interpreted, bitboard,
                   valueVars>>

ShiftInit ==
    /\ SearchIdle
    /\ board = starting_position
    /\ ply = 0
    /\ lastMove = {}
    /\ irreversible = FALSE
    /\ constrained = TRUE
    /\ move_text = <<>>
    /\ formatted = {}
    /\ interpreted = NoResult
    /\ bitboard \in ShiftBoards
    /\ shifted = NoShift
    /\ ValueIdle

ShiftNext == Shift

ShiftSpec == ShiftInit /\ [][ShiftNext]_vars

(***************************************************************************)
(* Specification of vertical_flip: it is applied to a bitboard, and again  *)
(* to the result.                                                          *)
(***************************************************************************)
\* The bitboards vertical_flip is applied to: the small ones, some masks
\* and the White castling masks.
FlipBoards ==
    SmallBoards(MaxBits)
    \cup {FULL, A_FILE, RANK_1, WHITE_KING_SIDE_CASTLE_MASK,
          WHITE_QUEEN_SIDE_CASTLE_ATTACK_MASK,
          WHITE_QUEEN_SIDE_CASTLE_OCCUPATION_MASK}

VerticalFlip ==
    /\ ~flipped.called
    /\ flipped' = [result |-> vertical_flip(bitboard),
                   back |-> vertical_flip(vertical_flip(bitboard)),
                   called |-> TRUE]
    /\ UNCHANGED <<searchVars, board, ply, lastMove, irreversible,
                   constrained, move_text, formatted, interpreted, bitboard,
                   shifted, subsets, yielded, score, built, displayed>>

FlipInit ==
    /\ SearchIdle
    /\ board = starting_position
    /\ ply = 0
    /\ lastMove = {}
    /\ irreversible = FALSE
    /\ constrained = TRUE
    /\ move_text = <<>>
    /\ formatted = {}
    /\ interpreted = NoResult
    /\ bitboard \in FlipBoards
    /\ shifted = NoShift
    /\ ValueIdle

FlipNext == VerticalFlip

FlipSpec == FlipInit /\ [][FlipNext]_vars

(***************************************************************************)
(* Specification of subsets(): the iterator is created for a bitboard and  *)
(* next is called on it until it returns None.                             *)
(***************************************************************************)
\* The bitboards subsets() is called on: the small ones, the castling masks
\* and the eight squares of the h file, which hold bit 63.
SubsetBoards ==
    SmallBoards(MaxBits)
    \cup {H_FILE, WHITE_KING_SIDE_CASTLE_MASK,
          WHITE_QUEEN_SIDE_CASTLE_OCCUPATION_MASK,
          BLACK_QUEEN_SIDE_CASTLE_OCCUPATION_MASK}

SubsetsNext ==
    /\ subsets.front \in {"once", "partial"}
    /\ LET next == Iterator_next(subsets)
       IN  /\ subsets' = next.iterator
           /\ yielded' = IF next.item = {} THEN yielded
                         ELSE Append(yielded, CHOOSE x \in next.item : TRUE)
    /\ UNCHANGED <<searchVars, board, ply, lastMove, irreversible,
                   constrained, move_text, formatted, interpreted, bitboard,
                   shifted, flipped, score, built, displayed>>

SubsetInit ==
    /\ SearchIdle
    /\ board = starting_position
    /\ ply = 0
    /\ lastMove = {}
    /\ irreversible = FALSE
    /\ constrained = TRUE
    /\ move_text = <<>>
    /\ formatted = {}
    /\ interpreted = NoResult
    /\ bitboard \in SubsetBoards
    /\ shifted = NoShift
    /\ flipped = NoFlip
    /\ subsets = BitBoard_subsets(bitboard)
    /\ yielded = <<>>
    /\ score = DRAW
    /\ built = NotBuilt
    /\ displayed = NotDisplayed

SubsetNext == SubsetsNext

SubsetSpec == SubsetInit /\ [][SubsetNext]_vars

(***************************************************************************)
(* Specification of Score: a Score is built by from_mate_distance or       *)
(* from_evaluation, or is one of the constants; it is flipped up to        *)
(* MaxFlips times and then displayed.                                      *)
(***************************************************************************)
\* The arguments given to the constructors: the i16 values near 0, near
\* i16::MIN and near i16::MAX.
ScoreArguments ==
    (-MaxDistance..MaxDistance)
    \cup (I16_MIN..(I16_MIN + SCORE_MAXIMUM + MaxDistance))
    \cup ((I16_MAX - SCORE_MAXIMUM - MaxDistance)..I16_MAX)

\* The constructor calls and constants a Score starts from.
ScoreSources ==
    [from : {"from_mate_distance", "from_evaluation"},
     argument : ScoreArguments, flips : {0}]
    \cup [from : {"DRAW", "WORST", "BEST"}, argument : {0}, flips : {0}]

\* The Score a constructor call or constant gives.
Build(source) ==
    CASE source.from = "from_mate_distance" ->
             from_mate_distance(source.argument)
      [] source.from = "from_evaluation" -> from_evaluation(source.argument)
      [] source.from = "DRAW" -> DRAW
      [] source.from = "WORST" -> WORST
      [] source.from = "BEST" -> BEST

Construct ==
    /\ built = NotBuilt
    /\ \E source \in ScoreSources :
          /\ built' = source
          /\ score' = Build(source)
    /\ UNCHANGED <<searchVars, board, ply, lastMove, irreversible,
                   constrained, move_text, formatted, interpreted, bitboard,
                   shifted, flipped, subsets, yielded, displayed>>

Flip ==
    /\ built # NotBuilt
    /\ built.flips < MaxFlips
    /\ displayed = NotDisplayed
    /\ score' = flip(score)
    /\ built' = [built EXCEPT !.flips = @ + 1]
    /\ UNCHANGED <<searchVars, board, ply, lastMove, irreversible,
                   constrained, move_text, formatted, interpreted, bitboard,
                   shifted, flipped, subsets, yielded, displayed>>

Display ==
    /\ built # NotBuilt
    /\ displayed = NotDisplayed
    /\ displayed' = Score_fmt(score)
    /\ UNCHANGED <<searchVars, board, ply, lastMove, irreversible,
                   constrained, move_text, formatted, interpreted, bitboard,
                   shifted, flipped, subsets, yielded, score, built>>

ScoreInit ==
    /\ SearchIdle
    /\ board = starting_position
    /\ ply = 0
    /\ lastMove = {}
    /\ irreversible = FALSE
    /\ constrained = TRUE
    /\ move_text = <<>>
    /\ formatted = {}
    /\ interpreted = NoResult
    /\ bitboard = EMPTY
    /\ shifted = NoShift
    /\ flipped = NoFlip
    /\ subsets = NoIterator
    /\ yielded = <<>>
    /\ score = DRAW
    /\ built = NotBuilt
    /\ displayed = NotDisplayed

ScoreNext == Construct \/ Flip \/ Display

ScoreSpec == ScoreInit /\ [][ScoreNext]_vars

(***************************************************************************)
(* Properties of the move constraints.  Checks and pins are stated from    *)
(* the coordinates of the pieces, not from the rays the code uses.         *)
(***************************************************************************)
Sign(x) == IF x > 0 THEN 1 ELSE IF x < 0 THEN -1 ELSE 0

Abs(x) == IF x < 0 THEN -x ELSE x

\* Two distinct squares on one file or one rank.
OnCross(a, b) == a # b /\ (File(a) = File(b) \/ Rank(a) = Rank(b))

\* Two distinct squares on one diagonal.
OnDiagonal(a, b) ==
    a # b /\ Abs(File(a) - File(b)) = Abs(Rank(a) - Rank(b))

\* The squares strictly between two squares of one line.
Between(a, b) ==
    IF ~(OnCross(a, b) \/ OnDiagonal(a, b)) THEN {}
    ELSE LET df == Sign(File(b) - File(a))
             dr == Sign(Rank(b) - Rank(a))
             n == IF File(a) # File(b) THEN Abs(File(b) - File(a))
                  ELSE Abs(Rank(b) - Rank(a))
         IN  {Sq(File(a) + i * df, Rank(a) + i * dr) : i \in 1 .. (n - 1)}

\* The axis of the line through two squares.
AxisOf(a, b) ==
    CASE File(a) = File(b) -> "vertical"
      [] Rank(a) = Rank(b) -> "horizontal"
      [] File(b) - File(a) = Rank(b) - Rank(a) -> "diagonal"
      [] OTHER -> "anti_diagonal"

TheKing == KingSquare(board.current_player)

\* An enemy piece of a kind that slides along the line from its square to
\* the king.
SlidesAtKing(s) ==
    LET kind == board.piece_table[s]
    IN  \/ kind \in {"Rook", "Queen"} /\ OnCross(s, TheKing)
        \/ kind \in {"Bishop", "Queen"} /\ OnDiagonal(s, TheKing)

\* The enemy piece on s attacks the king of the side to move.
GivesCheck(s) ==
    LET kind == board.piece_table[s]
        df == Abs(File(TheKing) - File(s))
        dr == Abs(Rank(TheKing) - Rank(s))
        forward == IF Not(board.current_color) = "White" THEN 1 ELSE -1
    IN  CASE kind = "Knight" -> {df, dr} = {1, 2}
          [] kind = "Pawn" -> df = 1 /\ Rank(TheKing) = Rank(s) + forward
          [] kind \in {"Rook", "Bishop", "Queen"} ->
                SlidesAtKing(s) /\ Between(s, TheKing) \cap Occupied(board) = {}
          [] OTHER -> FALSE

Checkers == {s \in board.opposing_player.occupation : GivesCheck(s)}

\* The squares on which a check from s can be blocked or its piece taken.
CaptureOrBlock(s) ==
    IF board.piece_table[s] \in {"Rook", "Bishop", "Queen"}
    THEN Between(TheKing, s) \cup {s}
    ELSE {s}

\* C12: after update_move_constraints, valid_targets of the side to move is
\* FULL when its king is not in check; when exactly one enemy piece gives
\* check it is the squares from the king up to and including a checking
\* rook, bishop or queen, and the checker's square alone for a knight or a
\* pawn.
C12_ValidTargets ==
    constrained =>
        /\ Checkers = {} => board.current_player.valid_targets = FULL
        /\ \A s \in Checkers :
              Checkers = {s} =>
                  board.current_player.valid_targets = CaptureOrBlock(s)

\* C12, witness: a queen three squares up the king's file gives the only
\* check; the three squares up to the queen are the valid targets.
C12_Witness ==
    /\ constrained
    /\ \E s \in Checkers :
          /\ Checkers = {s}
          /\ board.piece_table[s] = "Queen"
          /\ File(s) = File(TheKing)
          /\ Cardinality(board.current_player.valid_targets) = 3

\* The enemy sliders that pin a friendly piece on an axis: the line to the
\* king holds exactly one friendly piece and no other piece.
Pinners(axis) ==
    {s \in board.opposing_player.occupation :
        /\ SlidesAtKing(s)
        /\ AxisOf(TheKing, s) = axis
        /\ Between(TheKing, s) \cap board.opposing_player.occupation = {}
        /\ is_a_single_one(Between(TheKing, s)
                            \cap board.current_player.occupation)}

\* The pins record that holds, on each axis, the squares a function gives
\* for each pinner of the axis.
PinsOf(squares(_)) ==
    [vertical |-> UNION {squares(s) : s \in Pinners("vertical")},
     horizontal |-> UNION {squares(s) : s \in Pinners("horizontal")},
     diagonal |-> UNION {squares(s) : s \in Pinners("diagonal")},
     anti_diagonal |-> UNION {squares(s) : s \in Pinners("anti_diagonal")}]

PinnedSquare(s) == Between(TheKing, s) \cap board.current_player.occupation

PinRay(s) == Between(TheKing, s) \cup {s}

NoBlockOrCapture ==
    \A s \in Checkers :
        {m \in LegalMoves(board) : m.target \in CaptureOrBlock(s)} = {}

\* C14, as stated: king_must_move is true exactly when the king is in double
\* check or is in check with no legal blocking or capturing move.
C14_Original ==
    constrained =>
        (board.current_player.king_must_move
         <=> \/ Cardinality(Checkers) >= 2
             \/ Cardinality(Checkers) = 1 /\ NoBlockOrCapture)

\* C14: king_must_move is true exactly when the king is in double check
\* (attacked by two or more enemy pieces); it is false when the king is not
\* attacked and when it is attacked once, whether or not a block or a
\* capture is available.
C14_DoubleCheck ==
    constrained =>
        (board.current_player.king_must_move <=> Cardinality(Checkers) >= 2)

\* C14, witness: a knight and a slider give check together.
C14_Witness ==
    /\ constrained
    /\ board.current_player.king_must_move
    /\ Cardinality(Checkers) = 2
    /\ \E s \in Checkers : board.piece_table[s] = "Knight"
    /\ \E s \in Checkers : SlidesAtKing(s)

(***************************************************************************)
(* Properties of interpret_move.                                           *)
(***************************************************************************)
\* The text of a square: a file letter followed by a rank digit.
IsSquareText(chars) ==
    /\ Len(chars) = 2
    /\ chars[1] \in {"a", "b", "c", "d", "e", "f", "g", "h"}
    /\ chars[2] \in {"1", "2", "3", "4", "5", "6", "7", "8"}

\* The square a square text names.
SquareOf(chars) ==
    CHOOSE sq \in Squares : SquareText(sq) = chars

\* The text given is one interpret_move has to refuse: wrong length, a
\* malformed square, no piece on the origin square, or a fifth character
\* that is no promotion letter.
Refused ==
    \/ Len(move_text) < 4
    \/ Len(move_text) > 5
    \/ ~IsSquareText(SubSeq(move_text, 1, 2))
    \/ ~IsSquareText(SubSeq(move_text, 3, 4))
    \/ board.piece_table[SquareOf(SubSeq(move_text, 1, 2))] = None
    \/ Len(move_text) = 5 /\ move_text[5] \notin {"q", "r", "b", "n"}

\* C17, as stated: interpret_move returns a parse error, never a Move, for
\* every text shorter than 4 or longer than 5 characters, with a malformed
\* square, with no piece on the origin square, or of 5 characters with a
\* fifth character other than q, r, b, n, whichever piece stands on the
\* origin square.
C17_Original ==
    (interpreted # NoResult /\ Refused) => interpreted.tag = "Err"

\* C18, as stated: interpret_move returns a Move or a typed error for every
\* text, and never panics.
C18_Original == interpreted.tag \in {"none", "Ok", "Err"}

\* C19: interpret_move applied to the coordinate text of a legal move of the
\* position returns a move with the same origin, target, moved piece kind
\* and meta.
C19_RoundTrip ==
    \A m \in formatted : interpreted = OkMove(m)

\* C19, witness: the text of a legal en-passant capture has been
\* interpreted as an en-passant capture.
C19_Witness ==
    /\ \E m \in formatted : m.meta = "EnPassant"
    /\ interpreted.tag = "Ok"
    /\ \E m \in interpreted.move : m.meta = "EnPassant"

(***************************************************************************)
(* Properties of the directional shifts.                                   *)
(***************************************************************************)
\* The displacement (files, ranks) of one step in a direction as seen from
\* a color's side of the board.
Step(direction, c) ==
    LET sign == IF c = "White" THEN 1 ELSE -1
    IN  CASE direction = "up" -> <<0, sign>>
          [] direction = "down" -> <<0, -sign>>
          [] direction = "right" -> <<sign, 0>>
          [] direction = "left" -> <<-sign, 0>>

\* The squares of bb displaced by one step, those leaving the board dropped.
Displaced(bb, d) ==
    {Sq(File(s) + d[1], Rank(s) + d[2]) :
        s \in {t \in bb : OnBoard(File(t) + d[1], Rank(t) + d[2])}}

\* C20: the directional shifts never wrap around the board edge: the result
\* of move_one_up/down/left/right(b, c) is exactly the squares of b
\* displaced by one rank or file in that direction relative to c, the
\* squares of the far edge vanishing; for a single-square board one step up
\* then one step down (and right then left) gives the board back, or EMPTY
\* when the square was on the edge that makes it vanish.
C20_ShiftsNeverWrap ==
    shifted.direction # "none" =>
        LET d == Step(shifted.direction, shifted.color)
        IN  /\ shifted.result = Displaced(bitboard, d)
            /\ (is_a_single_one(bitboard)
                 /\ shifted.direction \in {"up", "right"}) =>
                    shifted.back = IF Displaced(bitboard, d) = EMPTY
                                   THEN EMPTY ELSE bitboard

\* C20, witness: h1 moved one step right for White vanishes instead of
\* reappearing on a2, and stays vanished after the step left.
C20_Witness ==
    /\ bitboard = {H1}
    /\ shifted.direction = "right"
    /\ shifted.color = "White"
    /\ shifted.result = EMPTY
    /\ shifted.back = EMPTY

(***************************************************************************)
(* Properties of subsets() and vertical_flip.                              *)
(***************************************************************************)
\* The number of places at which a sequence holds x.
Occurrences(seq, x) == Cardinality({i \in 1..Len(seq) : seq[i] = x})

\* C21: subsets() of a bitboard b yields only values x with x & b == x, all
\* distinct, EMPTY first, never more than 2^popcount(b) of them, and when
\* next has returned None it has yielded exactly 2^popcount(b) values, with
\* EMPTY exactly once and b exactly once; next returns None at the call
\* after the 2^popcount(b) values, so the iteration terminates.
C21_Subsets ==
    LET count == 2 ^ Cardinality(bitboard)
    IN  subsets.front # "none" =>
          /\ \A i \in 1..Len(yielded) : yielded[i] \cap bitboard = yielded[i]
          /\ \A i, j \in 1..Len(yielded) : yielded[i] = yielded[j] => i = j
          /\ Len(yielded) <= count
          /\ Len(yielded) >= 1 => yielded[1] = EMPTY
          /\ subsets.front = "once" <=> yielded = <<>>
          /\ (subsets.front = "partial" /\ Len(yielded) = count)
                => Iterator_next(subsets).item = {}
          /\ subsets.front = "done" =>
                /\ Len(yielded) = count
                /\ Occurrences(yielded, EMPTY) = 1
                /\ Occurrences(yielded, bitboard) = 1
                /\ yielded[count] = bitboard

\* subsets() of the eight squares of the h file has yielded its 256 values
\* and returned None.
C21_Witness ==
    /\ subsets.front = "done"
    /\ bitboard = H_FILE
    /\ Len(yielded) = 256
    /\ yielded[2] = {H1}

\* C22: vertical_flip applied twice gives the bitboard back; the square of
\* file f and rank r is set in the flipped bitboard exactly when the square
\* of file f and rank 7 - r is set in the bitboard; each Black castling
\* mask is the White mask moved from rank 1 onto rank 8, file by file.
C22_VerticalFlip ==
    LET mirrored(white, black) ==
            /\ white \subseteq RANK_1
            /\ black = {Sq(File(s), 7) : s \in white}
    IN  /\ flipped.called =>
            /\ flipped.back = bitboard
            /\ \A f, r \in 0..7 :
                  Sq(f, r) \in flipped.result <=> Sq(f, 7 - r) \in bitboard
        /\ mirrored(WHITE_KING_SIDE_CASTLE_MASK, BLACK_KING_SIDE_CASTLE_MASK)
        /\ mirrored(WHITE_QUEEN_SIDE_CASTLE_ATTACK_MASK,
                    BLACK_QUEEN_SIDE_CASTLE_ATTACK_MASK)
        /\ mirrored(WHITE_QUEEN_SIDE_CASTLE_OCCUPATION_MASK,
                    BLACK_QUEEN_SIDE_CASTLE_OCCUPATION_MASK)
        /\ BLACK_KING_SIDE_CASTLE_MASK = {F8, G8}

\* vertical_flip has been applied to the White king-side castling mask, the
\* squares f1 and g1, and has given f8 and g8.
C22_Witness ==
    /\ flipped.called
    /\ bitboard = WHITE_KING_SIDE_CASTLE_MASK
    /\ bitboard = {F1, G1}
    /\ flipped.result = {F8, G8}

(***************************************************************************)
(* Properties of Score.                                                    *)
(***************************************************************************)
\* The magnitude of a Score.
Magnitude(s) == IF s.value < 0 THEN -s.value ELSE s.value

\* The Score was built by from_mate_distance and has not been flipped.
BuiltFromMateDistance ==
    built.from = "from_mate_distance" /\ built.flips = 0

\* The Score was built by from_evaluation and has not been flipped.
BuiltFromEvaluation == built.from = "from_evaluation" /\ built.flips = 0

\* C23: from_evaluation(e) is e clamped to the finite band; for a non-zero
\* distance n, from_mate_distance(n) is strictly larger in magnitude than
\* every from_evaluation(e) and than from_mate_distance(m) for every m with
\* |n| < |m|, and has the sign of n.
C23_Original ==
    /\ BuiltFromEvaluation =>
          score.value = clamp(built.argument, -SCORE_MAXIMUM, SCORE_MAXIMUM)
    /\ (BuiltFromMateDistance /\ built.argument # 0) =>
          /\ \A e \in ScoreArguments :
                Magnitude(score) > Magnitude(from_evaluation(e))
          /\ \A m \in ScoreArguments :
                Abs(built.argument) < Abs(m)
                => Magnitude(score) > Magnitude(from_mate_distance(m))
          /\ signum(score.value) = signum(built.argument)

\* C23 (amended): from_evaluation(e) is e clamped to the finite band; for a
\* distance n other than 0 and i16::MIN the magnitude of
\* from_mate_distance(n) is MATE_MAXIMUM - |n|, which is strictly larger
\* than that of from_mate_distance(m) for every m other than i16::MIN with
\* |n| < |m|, strictly larger than that of every from_evaluation(e) when
\* |n| < MATE_MAXIMUM - SCORE_MAXIMUM, and the sign of from_mate_distance(n)
\* is the sign of n when |n| < MATE_MAXIMUM.
C23_MateOrdering ==
    /\ BuiltFromEvaluation =>
          score.value = clamp(built.argument, -SCORE_MAXIMUM, SCORE_MAXIMUM)
    /\ (BuiltFromMateDistance /\ built.argument \notin {0, I16_MIN}) =>
          /\ Magnitude(score) = MATE_MAXIMUM - Abs(built.argument)
          /\ Abs(built.argument) < MATE_MAXIMUM - SCORE_MAXIMUM =>
                \A e \in ScoreArguments :
                    Magnitude(score) > Magnitude(from_evaluation(e))
          /\ \A m \in ScoreArguments \ {I16_MIN} :
                Abs(built.argument) < Abs(m)
                => Magnitude(score) > Magnitude(from_mate_distance(m))
          /\ Abs(built.argument) < MATE_MAXIMUM =>
                signum(score.value) = signum(built.argument)

\* from_mate_distance(-2) has built the score of magnitude MATE_MAXIMUM - 2,
\* larger than the magnitude of from_evaluation(i16::MAX).
C23_Witness ==
    /\ BuiltFromMateDistance
    /\ built.argument = -2
    /\ score.value = -(MATE_MAXIMUM - 2)
    /\ Magnitude(from_evaluation(I16_MAX)) = SCORE_MAXIMUM

\* The distance a mate Score stands for in this model's runs: the argument
\* of from_mate_distance, negated by an odd number of flips.
SignedDistance ==
    IF built.flips % 2 = 0 THEN built.argument ELSE -built.argument

\* C24: a Score built by from_mate_distance(n) for a distance of up to
\* MaxDistance half-moves, of either sign, is displayed as # followed by n;
\* a Score built by from_evaluation is displayed as its clamped value.
C24_Original ==
    displayed # NotDisplayed =>
        /\ (built.from = "from_mate_distance" /\ built.argument # 0
            /\ built.argument \in -MaxDistance..MaxDistance)
              => displayed = <<"#">> \o i16_fmt(SignedDistance)
        /\ built.from = "from_evaluation" =>
              /\ displayed = i16_fmt(score.value)
              /\ displayed[1] # "#"

\* C25: a Score built by a constructor or constant and flipped any number
\* of times lies in [WORST, BEST] = [-(i16::MAX - 1), i16::MAX - 1], so its
\* negation does not overflow; flipping it twice gives it back; DRAW flipped
\* is DRAW; and from_mate_distance(n) flipped is from_mate_distance(-n) for
\* n other than i16::MIN.
C25_Flip ==
    /\ WORST.value = -(I16_MAX - 1) /\ BEST.value = I16_MAX - 1
    /\ flip(DRAW) = DRAW
    /\ built.from # "none" =>
          /\ score.value >= WORST.value /\ score.value <= BEST.value
          /\ score.value # I16_MIN
          /\ ~Overflows(score.value * (-1))
          /\ flip(flip(score)) = score
          /\ (BuiltFromMateDistance /\ built.argument # I16_MIN)
                => flip(score) = from_mate_distance(-built.argument)

\* from_mate_distance(-1), the score WORST, has been flipped twice.
C25_Witness ==
    /\ built.from = "from_mate_distance"
    /\ built.argument = -1
    /\ built.flips = 2
    /\ score = WORST

(***************************************************************************)
(* Properties of the worker loop.                                          *)
(***************************************************************************)
\* The worker has left the loop, by return or by panic.
WorkerEnded == worker \in {"returned", "panicked"}

\* C26: an iteration of the worker loop starts with one try_recv and does
\* one thing.  If the queue was empty and connected, one expand call starts
\* and the next thing the worker does is finish it and poll again; if a
\* command was pending, that command alone is taken, no expand call starts,
\* and the next thing the worker does is handle that command once and poll
\* again or end; if the queue was empty and disconnected, the worker ends.
\* The tree changes only in the step that finishes an expand call or
\* handles a command.
C26_OneStepPerIteration ==
    [][/\ (worker = "poll" /\ worker' # "poll") =>
            /\ worker' = "expanding" <=>
                  (commandQueue = <<>> /\ commandSenderAlive)
            /\ worker' = "handling" <=> commandQueue # <<>>
            /\ WorkerEnded' <=> (commandQueue = <<>> /\ ~commandSenderAlive)
            /\ worker' = "handling" =>
                  /\ command' = Head(commandQueue)
                  /\ commandQueue' = Tail(commandQueue)
            /\ worker' # "handling" => UNCHANGED commandQueue
            /\ UNCHANGED <<tree, handledCommands>>
       /\ (worker = "expanding" /\ worker' # "expanding") =>
            /\ worker' = "poll"
            /\ visits(tree') = visits(tree) + 1
            /\ UNCHANGED handledCommands
       /\ (worker = "handling" /\ worker' # "handling") =>
            /\ worker' = "poll" \/ WorkerEnded'
            /\ handledCommands' = Append(handledCommands, command)
       /\ worker' = worker => UNCHANGED <<tree, handledCommands>>
       /\ WorkerEnded => UNCHANGED <<worker, tree, handledCommands>>
       /\ tree' # tree => worker \in {"expanding", "handling"}
      ]_vars

\* The worker has handled a command, polled again, found the queue empty
\* and connected, and is inside the expand call of that iteration.
C26_Witness ==
    /\ worker = "expanding"
    /\ handledCommands # <<>>
    /\ commandQueue = <<>>
    /\ commandSenderAlive

(***************************************************************************)
(* Properties of the board.                                                *)
(***************************************************************************)
TheLastMove == CHOOSE m \in lastMove : TRUE

\* C1: after every sequence of legal moves made with make_move_unchecked
\* from a position whose hash is correct, Board.hash equals the Zobrist hash
\* computed from scratch from the piece placement, the side to move, both
\* players' castling rights and the en-passant file.
C1_HashMatchesZobrist == board.hash = ZobristFromScratch(board)

\* C1, witness: an en-passant capture has just been made (after a double
\* push), so the hash has lost a captured pawn away from the target square.
C1_Witness ==
    /\ lastMove # {}
    /\ TheLastMove.meta = "EnPassant"
    /\ board.ep_data = {}

\* The union of a player's six piece bitboards.
PiecesOf(player) == UNION {PieceBoard(player, k) : k \in PieceKinds}

\* C11: after every make_move_unchecked of a legal move, each player's
\* occupation is the union of that player's six piece bitboards, the two
\* occupations are disjoint, and piece_table holds a kind on a square
\* exactly when one player's bitboard of that kind contains the square.
C11_PlacementConsistent ==
    lastMove # {} =>
        /\ board.current_player.occupation = PiecesOf(board.current_player)
        /\ board.opposing_player.occupation
              = PiecesOf(board.opposing_player)
        /\ board.current_player.occupation
              \cap board.opposing_player.occupation = EMPTY
        /\ \A s \in Squares, k \in PieceKinds :
              (board.piece_table[s] = k)
              <=> (s \in PieceBoard(board.current_player, k)
                   \/ s \in PieceBoard(board.opposing_player, k))

\* C11, witness: a pawn has just promoted by capturing.
C11_Witness ==
    /\ lastMove # {}
    /\ TheLastMove.meta = "Promotion"
    /\ File(TheLastMove.origin) # File(TheLastMove.target)
    /\ board.piece_table[TheLastMove.target] = TheLastMove.promotion

\* The side that made the last move.
Mover == Not(board.current_color)

\* C15: after make_move_unchecked, ep_data is present exactly when the move
\* just made was a double pawn push, with pawn the move's target square and
\* capture_point the one square directly behind it from the mover's side;
\* every other move leaves ep_data absent.
C15_EpData ==
    lastMove # {} =>
        LET target == TheLastMove.target
            behind == Sq(File(target),
                         IF Mover = "White" THEN Rank(target) - 1
                         ELSE Rank(target) + 1)
        IN  IF TheLastMove.meta = "DoublePush"
            THEN board.ep_data
                   = {[pawn |-> target, capture_point |-> {behind}]}
            ELSE board.ep_data = {}

\* C15, witness: e2e4 has been played; the pawn is e4, the capture point e3.
C15_Witness ==
    /\ lastMove # {}
    /\ TheLastMove.origin = Sq(4, 1)
    /\ TheLastMove.target = Sq(4, 3)
    /\ board.ep_data = {[pawn |-> Sq(4, 3), capture_point |-> {Sq(4, 2)}]}

\* e2e4 has just been played from the starting position.
E2E4FromStart ==
    /\ ply = 1
    /\ lastMove = {Move(Sq(4, 1), Sq(4, 3), "Pawn", "DoublePush", None)}
    /\ Cardinality(Occupied(board)) = 32

\* C16: from the starting position, e2e4 changes the hash by exactly the
\* XOR of four components: the white pawn leaves e2, the white pawn arrives
\* on e4, the en-passant file e is added, the side to move is toggled.
C16_DoublePushHash ==
    E2E4FromStart =>
        Xor(board.hash, starting_position.hash)
          = Xor(Xor(Xor(zobrist_piece("Pawn", "White", Sq(4, 1)),
                        zobrist_piece("Pawn", "White", Sq(4, 3))),
                    zobrist_ep_file(4)),
                Xor(zobrist_side("White"), zobrist_side("Black")))

\* C16, witness: e2e4 has been played from the starting position and the
\* castling rights of both sides are what they were.
C16_Witness ==
    /\ E2E4FromStart
    /\ board.opposing_player.castling_rights = HomeRights(0)
    /\ board.current_player.castling_rights = HomeRights(7)

(***************************************************************************)
(* Properties of one make_move_unchecked call, stated over the step from   *)
(* the board before the call to the board after it.                        *)
(***************************************************************************)
\* The step is a make_move_unchecked call.
MoveIsMade == ply' = ply + 1

\* The move that call is given.
MoveMade == CHOOSE m \in lastMove' : TRUE

\* The record of the side of a color.
PlayerOf(b, color) ==
    IF color = "White" THEN white_player(b) ELSE black_player(b)

\* The squares a castle may change besides the king's: the rooks' home and
\* destination squares.
CastleRookSquares == {A1, D1, F1, H1, A8, D8, F8, H8}

\* The constraint fields of a Player.
Constraints(player) ==
    <<player.pins, player.valid_targets, player.king_must_move>>

\* C27: every make_move_unchecked negates current_color and swaps the two
\* Player records: after the call current_player is the record of the other
\* color, white_player() and black_player() still hold the pieces of White
\* and of Black (the mover's pieces changed at the move's squares only, the
\* other side's pieces at most lost one), and the constraint fields are
\* those of the new side to move: valid_targets and king_must_move follow
\* from the checks on its king, and recomputing them changes nothing, while
\* the mover's fields are left as they were.
C27_SidesSwap ==
    /\ [](lastMove # {} =>
            /\ update_move_constraints(board) = board
            /\ board.current_player.king = PieceBoard(
                   PlayerOf(board, board.current_color), "King")
            /\ board.current_player.king_must_move
                  <=> Cardinality(Checkers) >= 2
            /\ Checkers = {} => board.current_player.valid_targets = FULL
            /\ \A s \in Checkers :
                  Checkers = {s} =>
                      board.current_player.valid_targets = CaptureOrBlock(s))
    /\ [][MoveIsMade =>
            LET c == board.current_color
                before == PiecesOf(PlayerOf(board, c))
                after == PiecesOf(PlayerOf(board', c))
            IN  /\ board'.current_color = Not(c)
                /\ board'.current_player = PlayerOf(board', Not(c))
                /\ board'.opposing_player = PlayerOf(board', c)
                /\ MoveMade.origin \in before \ after
                /\ MoveMade.target \in after
                /\ Xor(before, after) \subseteq
                      {MoveMade.origin, MoveMade.target}
                      \cup CastleRookSquares
                /\ PiecesOf(PlayerOf(board', Not(c)))
                      \subseteq PiecesOf(PlayerOf(board, Not(c)))
                /\ Constraints(board'.opposing_player)
                      = Constraints(board.current_player)
       ]_vars

\* A move has just given check: the side now to move has a checker on its
\* king and its valid_targets are restricted.
C27_Witness ==
    /\ lastMove # {}
    /\ Checkers # {}
    /\ board.current_player.valid_targets # FULL
    /\ TheLastMove.target \in Checkers

\* C28: make_move_unchecked returns true exactly when the moved piece is a
\* pawn or the move captures a piece (the other side has one piece fewer
\* after the call): pawn pushes, promotions and en-passant captures return
\* true, a castle returns false.
C28_Irreversible ==
    [][MoveIsMade =>
          LET c == board.current_color
              captures ==
                  Cardinality(PiecesOf(PlayerOf(board', Not(c))))
                      < Cardinality(PiecesOf(PlayerOf(board, Not(c))))
              pawn == MoveMade.origin \in PlayerOf(board, c).pawns
          IN  /\ irreversible' <=> (pawn \/ captures)
              /\ MoveMade.meta \in {"Promotion", "EnPassant", "DoublePush"}
                    => irreversible'
              /\ MoveMade.meta \in {"CastleKs", "CastleQs"}
                    => ~irreversible'
     ]_vars

\* A king-side castle has just been made and make_move_unchecked returned
\* false.
C28_Witness ==
    /\ lastMove # {}
    /\ TheLastMove.meta = "CastleKs"
    /\ ~irreversible

\* C29: make_move_unchecked clears the mover's castling right at the move's
\* origin square and the other side's castling right at the move's target
\* square and changes no other right, so each side's rights only shrink.
C29_CastlingRights ==
    [][MoveIsMade =>
          LET c == board.current_color
              rights(b, color) == PlayerOf(b, color).castling_rights
          IN  /\ rights(board', c) = rights(board, c) \ {MoveMade.origin}
              /\ rights(board', Not(c))
                    = rights(board, Not(c)) \ {MoveMade.target}
              /\ rights(board', "White") \subseteq rights(board, "White")
              /\ rights(board', "Black") \subseteq rights(board, "Black")
     ]_vars

\* A rook has just been captured on its home square a8 or a1, and its side,
\* now to move, has lost the right of that square and kept the others.
C29_Witness ==
    /\ lastMove # {}
    /\ TheLastMove.target \in {A1, A8}
    /\ LET r == Rank(TheLastMove.target)
       IN  board.current_player.castling_rights = {Sq(4, r), Sq(7, r)}

\* C30: a castle moves the king from origin to target and the mover's rook
\* from the h file to the f file (king side) or from the a file to the d
\* file (queen side) of the mover's first rank; no other square of the
\* piece table changes, the mover's other bitboards and every bitboard of
\* the other side stay as they were.
C30_Castle ==
    [][(MoveIsMade /\ MoveMade.meta \in {"CastleKs", "CastleQs"}) =>
          LET c == board.current_color
              r == IF c = "White" THEN 0 ELSE 7
              ks == MoveMade.meta = "CastleKs"
              rook_from == Sq(IF ks THEN 7 ELSE 0, r)
              rook_to == Sq(IF ks THEN 5 ELSE 3, r)
              king_to == Sq(IF ks THEN 6 ELSE 2, r)
              mover == PlayerOf(board, c)
              moved == PlayerOf(board', c)
          IN  /\ MoveMade.origin = Sq(4, r) /\ MoveMade.target = king_to
              /\ mover.king = {Sq(4, r)} /\ rook_from \in mover.rooks
              /\ moved.king = {king_to}
              /\ moved.rooks = (mover.rooks \ {rook_from}) \cup {rook_to}
              /\ \A k \in PieceKinds \ {"King", "Rook"} :
                    PieceBoard(moved, k) = PieceBoard(mover, k)
              /\ moved.occupation
                    = (mover.occupation \ {Sq(4, r), rook_from})
                      \cup {king_to, rook_to}
              /\ \A k \in PieceKinds :
                    PieceBoard(PlayerOf(board', Not(c)), k)
                        = PieceBoard(PlayerOf(board, Not(c)), k)
              /\ PlayerOf(board', Not(c)).occupation
                    = PlayerOf(board, Not(c)).occupation
              /\ board'.piece_table =
                    [board.piece_table EXCEPT
                        ![Sq(4, r)] = None, ![rook_from] = None,
                        ![king_to] = "King", ![rook_to] = "Rook"]
     ]_vars

\* Black has just castled queen-side: king on c8, rook on d8, a8 and e8
\* empty.
C30_Witness ==
    /\ lastMove # {}
    /\ TheLastMove.meta = "CastleQs"
    /\ board.current_color = "White"
    /\ board.opposing_player.king = {C8}
    /\ D8 \in board.opposing_player.rooks
    /\ board.piece_table[A8] = None /\ board.piece_table[E8] = None

(***************************************************************************)
(* Properties of the search worker.                                        *)
(***************************************************************************)
\* The command the worker took from the channel and has not handled yet.
InHand == IF worker = "handling" THEN <<command>> ELSE <<>>

RequestsHandled ==
    Cardinality({i \in 1 .. Len(handledCommands) :
                    handledCommands[i] = SendAndPlayBestMove})

\* An expand call cannot start only because the model's bound is reached.
IdleAtBound ==
    /\ worker = "poll"
    /\ commandQueue = <<>>
    /\ commandSenderAlive
    /\ visits(tree) >= MaxVisits

\* C2, as stated: the commands handled are a prefix of the commands sent, and
\* every command sent is handled: a worker that has returned has handled
\* them all.
C2_Original ==
    /\ IsPrefix(handledCommands, sentCommands)
    /\ worker = "returned" => handledCommands = sentCommands

\* C2, amended: the commands handled, the one in hand and the ones queued
\* are, in this order, exactly the commands sent (none skipped, none
\* reordered); an expand call starts only at a poll that found the queue
\* empty; and under fair scheduling every command sent is eventually handled
\* unless the worker terminates first.
C2_CommandOrder ==
    /\ [](handledCommands \o InHand \o commandQueue = sentCommands)
    /\ [][worker' = "expanding" /\ worker # "expanding"
            => commandQueue = <<>>]_vars
    /\ \A i \in 1 .. MaxCommands :
          (Len(sentCommands) >= i)
              ~> (Len(handledCommands) >= i \/ worker \in Terminated)

\* C2, witness: two commands were sent and handled with an expand call made.
C2_Witness ==
    /\ Len(handledCommands) >= 2
    /\ handledCommands = sentCommands
    /\ visits(tree) >= 1
    /\ worker = "poll"

\* C3, as stated: handling SendAndPlayBestMove with the result receiver
\* alive sends exactly one move, a best move of the tree, and re-roots the
\* tree at it; no other step sends a move, so the moves sent never outnumber
\* the requests handled.
C3_Original ==
    /\ [][(/\ worker = "handling"
           /\ command = SendAndPlayBestMove
           /\ bestMoveReceiverAlive
           /\ handledCommands' # handledCommands)
          => \E m \in Moves :
                /\ m \in best_move(tree)
                /\ sentMoves' = Append(sentMoves, m)
                /\ tree' = advance(tree, m)]_vars
    /\ [][sentMoves' # sentMoves
            => worker = "handling" /\ command = SendAndPlayBestMove]_vars
    /\ [](Len(sentMoves) <= RequestsHandled)

\* C4, as stated: handling SendAndPlayBestMove never fails, whatever the
\* state of the tree.
C4_Original ==
    [][worker = "handling" /\ command = SendAndPlayBestMove
        => worker' # "panicked"]_vars

\* C5, as stated: once the command sender is dropped, the next poll of the
\* command channel observes the disconnection and the worker returns.
C5_Original ==
    [][~commandSenderAlive /\ worker = "poll" /\ worker' # "poll"
        => worker' = "returned"]_vars

\* C5, amended: once the command sender is dropped, no further expand call
\* starts; the first poll that finds the queue empty observes the
\* disconnection and the worker returns; and under fair scheduling the worker
\* terminates.
C5_Cancellation ==
    /\ [][~commandSenderAlive /\ worker' = "expanding"
            => worker = "expanding"]_vars
    /\ [][(/\ ~commandSenderAlive
           /\ worker = "poll"
           /\ commandQueue = <<>>
           /\ worker' # "poll")
          => worker' = "returned"]_vars
    /\ ~commandSenderAlive ~> worker \in Terminated

\* C5, witness: the sender was dropped with a command still queued, and the
\* worker has handled it and returned.
C5_Witness ==
    /\ ~commandSenderAlive
    /\ worker = "returned"
    /\ bestMoveReceiverAlive
    /\ handledCommands # <<>>
    /\ handledCommands = sentCommands

\* The command sender was dropped before any command was sent.
DroppedAfterConstruction == sentCommands = <<>> /\ ~commandSenderAlive

\* C6: when the command sender is dropped before any command was sent, the
\* worker does not fail, nothing is sent on the result channel, join returns
\* Ok, and under fair scheduling the worker returns.
C6_DropAfterConstruction ==
    /\ [](DroppedAfterConstruction
            => /\ sentMoves = <<>>
               /\ worker # "panicked"
               /\ joinResult \in {NotJoined, Ok})
    /\ DroppedAfterConstruction ~> worker = "returned"

\* C6, witness: the sender was dropped during the first expand call, and join
\* has returned.
C6_Witness ==
    /\ DroppedAfterConstruction
    /\ visits(tree) >= 2
    /\ joinResult = Ok

\* C7: under fair scheduling a controller blocked in recv after a request
\* gets a result, a move or a disconnection; and the worker never waits: a
\* worker that has not terminated can always take a step.
C7_ReceiveReturns ==
    /\ (controller = "receiving") ~> (controller = "idle")
    /\ [](worker \notin Terminated /\ ~IdleAtBound => ENABLED WorkerStep)

\* C7, witness: the controller's recv returned a disconnection after the
\* worker failed.
C7_Witness ==
    /\ received # <<>>
    /\ received[Len(received)] = Disconnected
    /\ worker = "panicked"

\* C8: handling PlayedMove(m) re-roots the tree at the child of m when there
\* is one, and the loop goes on; without one the worker fails with the
\* message "opponent move is impossible"; a failed worker expands nothing,
\* handles nothing and sends nothing any more, and join returns the error
\* with that message.
C8_PlayedMove ==
    [][/\ (worker = "handling" /\ command.type = "PlayedMove"
           /\ handledCommands' # handledCommands)
          => IF <<command.move>> \in DOMAIN tree
             THEN /\ worker' = "poll"
                  /\ visits(tree') = tree[<<command.move>>]
                  /\ \A p \in DOMAIN tree :
                        (Len(p) >= 1 /\ p[1] = command.move)
                            => (Tail(p) \in DOMAIN tree'
                                /\ tree'[Tail(p)] = tree[p])
                  /\ \A p \in DOMAIN tree' :
                        <<command.move>> \o p \in DOMAIN tree
             ELSE /\ worker' = "panicked"
                  /\ payload'.text = "opponent move is impossible"
       /\ worker = "panicked"
          => UNCHANGED <<worker, payload, tree, handledCommands,
                         sentMoves, commandQueue>>
       /\ (worker = "panicked" /\ payload = ExpectPayload
           /\ joinResult' # joinResult)
          => joinResult' = [variant |-> "Error",
                            text |-> "opponent move is impossible"]]_vars

\* C8, witness: a PlayedMove without a child was handled and join has
\* returned the error.
C8_Witness ==
    /\ worker = "panicked"
    /\ payload = ExpectPayload
    /\ joinResult.variant = "Error"

C10_JoinResult ==
    /\ worker = "returned"
          => \/ ~commandSenderAlive /\ commandQueue = <<>>
             \/ ~bestMoveReceiverAlive
    /\ joinResult # NotJoined
          => /\ joinResult = Ok <=> worker = "returned"
             /\ worker = "panicked" /\ payload.kind \in {"String", "str"}
                   => /\ joinResult.variant = "Error"
                      /\ joinResult.text = payload.text
             /\ worker = "panicked" /\ payload.kind \notin {"String", "str"}
                   => joinResult.variant = "Unknown"

\* C10, witness: join returned Unknown for a payload that is neither a String
\* nor a &str.
C10_Witness ==
    /\ joinResult.variant = "Unknown"
    /\ payload.kind = "other"

(***************************************************************************)
(* Properties of the commands queued when the command sender is dropped.   *)
(***************************************************************************)
\* The worker ended while it handled a command: the command failed, or it
\* was a best-move request and the result receiver was found dropped.
EndedHandling ==
    \/ worker = "panicked"
    \/ /\ worker = "returned"
       /\ ~bestMoveReceiverAlive
       /\ handledCommands # <<>>
       /\ handledCommands[Len(handledCommands)] = SendAndPlayBestMove

\* C31, as stated: once the command sender is dropped and the worker has
\* ended, every command sent has been handled, and with the result receiver
\* kept every best-move request sent has been answered with a move.
C31_Original ==
    (~commandSenderAlive /\ worker \in Terminated) =>
        /\ handledCommands = sentCommands
        /\ bestMoveReceiverAlive => Len(sentMoves) = RequestsSent

\* C31, amended: the disconnection never overtakes a queued command.  With
\* the sender dropped, a poll that finds a command queued takes the oldest
\* one; the worker returns from a poll only when the queue is empty and the
\* sender dropped, and then every command sent has been handled, in send
\* order, and every best-move request has had its move sent.  A worker that
\* ended with commands unhandled ended while handling a command.  Under fair
\* scheduling the worker ends once the sender is dropped.
C31_QueuedCommandsHandled ==
    /\ [][(worker = "poll" /\ worker' # "poll" /\ commandQueue # <<>>) =>
              /\ worker' = "handling"
              /\ command' = Head(commandQueue)
              /\ commandQueue' = Tail(commandQueue)]_vars
    /\ [][(worker = "poll" /\ worker' = "returned") =>
              /\ ~commandSenderAlive
              /\ commandQueue = <<>>
              /\ handledCommands = sentCommands
              /\ Len(sentMoves) = RequestsSent]_vars
    /\ []((worker \in Terminated /\ handledCommands # sentCommands)
              => EndedHandling)
    /\ ~commandSenderAlive ~>
          (worker \in Terminated
           /\ (handledCommands = sentCommands \/ EndedHandling))

\* The sender was dropped with a best-move request and a played move behind
\* it; the worker has handled both, sent the move, and returned on the
\* disconnection.
C31_Witness ==
    /\ ~commandSenderAlive
    /\ worker = "returned"
    /\ bestMoveReceiverAlive
    /\ Len(handledCommands) = 2
    /\ handledCommands[1] = SendAndPlayBestMove
    /\ handledCommands[2].type = "PlayedMove"
    /\ handledCommands = sentCommands
    /\ Len(sentMoves) = 1

=============================================================================
